---- MODULE Spec2Model ----
(***************************************************************************)
(* Model of sbs/db/sources.py: the source configurations of spike-based    *)
(* sampling and the way they create stimulus sources in the simulator and  *)
(* connect them to the samplers.                                           *)
(*                                                                         *)
(* numpy arrays and Python lists are functions over 0..n-1, so that every  *)
(* index of the model is the index the code uses.  A sampler's attributes  *)
(* (its source configuration, the network it lives in) are inputs the code *)
(* only reads; the model draws each of them at the step that first reads   *)
(* it.                                                                     *)
(***************************************************************************)
EXTENDS Integers, Sequences, FiniteSets, TLC

\* ------------------------------------------------------------------ bounds
MaxSamplers == 3
MaxSources == 2
MaxGroupSources == 3
MaxExtraCells == 1
\* the offset index on its own: targets, and sources of one target
MaxOffsetTargets == 3
MaxOffsetCount == 3
\* construction on its own: the length of a parameter array
MaxParamLen == 3

\* ------------------------------------------------------------ input values
\* the (rate, weight) pairs of a source: one rate with weights of either
\* sign, a second rate, a weight of zero
SourceSpecs == {<<1, 1>>, <<1, -1>>, <<2, 0>>}
\* the same for a sinusoidal source: (<<rate, amplitude, frequency, phase>>,
\* weight), the two parameter tuples differing in the phase alone
SinusSourceSpecs == {<<<<2, 1, 5, 0>>, 1>>, <<<<2, 1, 5, 0>>, -1>>,
                     <<<<2, 1, 5, 90>>, 0>>}
\* the same for a fixed spike train: (spike times, weight)
FixedSourceSpecs == {<<<<10>>, 1>>, <<<<10>>, -1>>, <<<<10, 20>>, 0>>}
PopIds == {"popA", "popB"}
None == "None"

\* ------------------------------------------------------------------ arrays
Size(a) == Cardinality(DOMAIN a)

EmptyArray == [i \in {} |-> 0]

ArrayOf(n, v) == [i \in 0..(n - 1) |-> v]

Append0(a, v) == [i \in 0..Size(a) |-> IF i < Size(a) THEN a[i] ELSE v]

Concat(a, b) ==
    [i \in 0..(Size(a) + Size(b) - 1) |->
        IF i < Size(a) THEN a[i] ELSE b[i - Size(a)]]

RECURSIVE hstackFrom(_, _)
hstackFrom(arrays, k) ==
    IF k >= Size(arrays) THEN EmptyArray
    ELSE Concat(arrays[k], hstackFrom(arrays, k + 1))

hstack_reversed(arrays) ==
    hstackFrom([k \in DOMAIN arrays |-> arrays[Size(arrays) - 1 - k]], 0)

\* np.hstack of a list of one-dimensional arrays
hstack(arrays) == hstackFrom(arrays, 0)

RECURSIVE SumUpTo(_, _)
SumUpTo(a, j) == IF j < 0 THEN 0 ELSE a[j] + SumUpTo(a, j - 1)

Sum(a) == SumUpTo(a, Size(a) - 1)

\* np.cumsum
cumsum(a) == [j \in DOMAIN a |-> SumUpTo(a, j)]

Min(S) == CHOOSE x \in S : \A y \in S : x <= y

Max(S) == CHOOSE x \in S : \A y \in S : x >= y

Values(a) == {a[i] : i \in DOMAIN a}

\* a[idx] for an index array idx (numpy fancy indexing)
Take(a, idx) == [i \in DOMAIN idx |-> a[idx[i]]]

Range0(n) == [i \in 0..(n - 1) |-> i]

\* the elements of a set of indices in ascending order (np.where(...)[0])
Ascending(S) ==
    [k \in 0..(Cardinality(S) - 1) |->
        CHOOSE i \in S : Cardinality({j \in S : j < i}) = k]

Abs(x) == IF x < 0 THEN -x ELSE x

\* ------------------------------------------------------------ offset index
\* idx_parrot_to_sampler: np.where(idx < offset_per_sampler)[0][0], the first
\* position whose cumulative count exceeds idx.  np.where(...)[0][0] raises
\* IndexError when there is none, modelled as -1.
idx_parrot_to_sampler_inclusive(idx, offset_per_sampler) ==
    LET hits == {j \in DOMAIN offset_per_sampler : idx <= offset_per_sampler[j]}
    IN  IF hits = {} THEN -1 ELSE Min(hits)

idx_parrot_to_sampler(idx, offset_per_sampler) ==
    LET hits == {j \in DOMAIN offset_per_sampler : idx < offset_per_sampler[j]}
    IN  IF hits = {} THEN -1 ELSE Min(hits)

\* ------------------------------------------------------------ deduplication
\* np.unique(rates, return_inverse=True): the sorted distinct values, and for
\* every entry of rates the position of its value among them.
unique_inverse_of_input(rates) ==
    LET S == Values(rates)
        rank(v) == Cardinality({u \in S : u < v})
    IN  [uniq |-> [k \in 0..(Cardinality(S) - 1) |->
                       CHOOSE v \in S : rank(v) = k],
         inverse |-> [i \in DOMAIN rates |->
                         Min({j \in DOMAIN rates : rates[j] = rates[i]})]]

unique_keeps_duplicates(rates) ==
    [uniq |-> rates, inverse |-> [i \in DOMAIN rates |-> i]]

unique(rates) ==
    LET S == Values(rates)
        rank(v) == Cardinality({u \in S : u < v})
    IN  [uniq |-> [k \in 0..(Cardinality(S) - 1) |->
                       CHOOSE v \in S : rank(v) = k],
         inverse |-> [i \in DOMAIN rates |-> rank(rates[i])]]

\* utils.group_identical_parameters(gathered_parameters): one pair
\* (idx, parameters) per distinct parameter tuple, idx the positions that hold
\* it, in the order of first occurrence.  params is the array of tuples
\* <<rate, amplitude, frequency, phase>> gathered_parameters describes.
group_identical_parameters(params) ==
    LET firsts == {i \in DOMAIN params :
                      \A j \in DOMAIN params : j < i => params[j] # params[i]}
        nth(k) == CHOOSE i \in firsts :
                      Cardinality({j \in firsts : j < i}) = k
    IN  [k \in 0..(Cardinality(firsts) - 1) |->
            [idx |-> {i \in DOMAIN params : params[i] = params[nth(k)]},
             parameters |-> params[nth(k)]]]

\* ---------------------------------------------------------------- grouping
\* it.groupby(keys): the maximal runs of consecutive equal keys, each run the
\* array of the positions it covers, in order.
\* groups all equal keys, consecutive or not
groupby_all_equal(keys) ==
    LET firsts == Ascending({i \in DOMAIN keys :
                               \A j \in DOMAIN keys : j < i => keys[j] # keys[i]})
    IN  [r \in DOMAIN firsts |->
            Ascending({i \in DOMAIN keys : keys[i] = keys[firsts[r]]})]

RECURSIVE groupbyFrom(_, _, _)
groupbyFrom(keys, i, runs) ==
    IF i >= Size(keys) THEN runs
    ELSE IF i > 0 /\ keys[i] = keys[i - 1]
         THEN groupbyFrom(keys, i + 1,
                  [runs EXCEPT ![Size(runs) - 1] = Append0(@, i)])
         ELSE groupbyFrom(keys, i + 1, Append0(runs, Append0(EmptyArray, i)))

groupby(keys) == groupbyFrom(keys, 0, EmptyArray)

\* -------------------------------------------------------------- populations
\* The cells of a PyNN population with n cells.
all_cells(pop, n) == [j \in 0..(n - 1) |-> <<pop, j>>]

\* s.population: the population (of one cell) of sampler s, the sampler at
\* position pos of the list.
SamplerCell(s, pos) ==
    IF s.population = None THEN <<"own", pos>> ELSE <<s.population, s.index>>

\* get_population_from_samplers for a list of at least two samplers: the loop
\* over the runs of samplers of one PyNN population, from run r on.
RECURSIVE gpfsFrom(_, _, _, _, _)
gpfsFrom(samplers, pop_len, runs, r, retval) ==
    IF r >= Size(runs)
    THEN [raised |-> "", single |-> FALSE, pops |-> retval]
    ELSE LET pop_samplers == runs[r]
             pop == samplers[pop_samplers[0]].population
             indexOk == \A k \in DOMAIN samplers :
                            /\ samplers[k].population # None
                            /\ samplers[k].index < pop_len[pop]
             view == [k \in DOMAIN samplers |-> <<pop, samplers[k].index>>]
         IN  IF pop = None
             THEN \* retval.extend(...) uses the run up; len(pop) of None
                  [raised |-> "TypeError", single |-> FALSE, pops |-> retval]
             ELSE IF Size(pop_samplers) = Size(samplers)
             THEN IF Size(pop_samplers) = pop_len[pop]
                  THEN [raised |-> "", single |-> TRUE,
                        pops |-> Append0(EmptyArray,
                                         all_cells(pop, pop_len[pop]))]
                  ELSE [raised |-> "", single |-> TRUE,
                        pops |-> Append0(EmptyArray, view)]
             ELSE IF Size(pop_samplers) = pop_len[pop]
             THEN gpfsFrom(samplers, pop_len, runs, r + 1,
                           Append0(retval, all_cells(pop, pop_len[pop])))
             ELSE IF ~indexOk
             THEN [raised |-> "IndexError", single |-> FALSE, pops |-> retval]
             ELSE gpfsFrom(samplers, pop_len, runs, r + 1,
                           Append0(retval, view))

\* get_population_from_samplers(sim, samplers).  target is the samplers
\* argument: a population of target.n cells, or a list of samplers whose
\* network entries are target.samplers.
get_population_from_samplers(target, pop_len) ==
    IF target.population
    THEN [raised |-> "", single |-> TRUE,
          pops |-> Append0(EmptyArray, all_cells("population", target.n))]
    ELSE IF Size(target.samplers) = 1
    THEN [raised |-> "", single |-> TRUE,
          pops |-> Append0(EmptyArray,
                     Append0(EmptyArray, SamplerCell(target.samplers[0], 0)))]
    ELSE gpfsFrom(target.samplers, pop_len,
                  groupby([k \in DOMAIN target.samplers |->
                              target.samplers[k].population]),
                  0, EmptyArray)

\* The network entries of a list of samplers: every sampler is either on its
\* own (population None) or a cell of one of the populations PopIds, where the
\* samplers of one population take its first cells in order and every
\* population has extra cells more.
NetworkOf(pops) ==
    [k \in DOMAIN pops |->
        [population |-> pops[k],
         index |-> IF pops[k] = None THEN None
                   ELSE Cardinality({j \in DOMAIN pops :
                                        j < k /\ pops[j] = pops[k]})]]

PopLen(pops, extra) ==
    [p \in PopIds |-> Cardinality({j \in DOMAIN pops : pops[j] = p}) + extra]

\* The populations of k samplers: all of them on their own, or every one in
\* a population, the first one in popA.
Networks(k) ==
    {[j \in 0..(k - 1) |-> None]}
    \cup {pops \in [0..(k - 1) -> PopIds] : pops[0] = "popA"}

\* ------------------------------------------------------------ configurations
Classes == {"PoissonSourceConfiguration", "SinusPoissonSourceConfiguration",
            "FixedSpikeTrainConfiguration"}

\* A PoissonSourceConfiguration after construction: _verify_parameters has made
\* rates as long as weights.
PoissonConfigs ==
    UNION {{[rates |-> [i \in DOMAIN src |-> src[i][1]],
             weights |-> [i \in DOMAIN src |-> src[i][2]]] :
               src \in [0..(n - 1) -> SourceSpecs]} : n \in 1..MaxSources}

\* A SinusPoissonSourceConfiguration after construction: _verify_parameters
\* has made rates, amplitudes, frequencies and phases as long as weights;
\* params[i] is (rates[i], amplitudes[i], frequencies[i], phases[i]).
SinusConfigs ==
    UNION {{[params |-> [i \in DOMAIN src |-> src[i][1]],
             weights |-> [i \in DOMAIN src |-> src[i][2]],
             individual_spike_trains |-> ist] :
               src \in [0..(n - 1) -> SinusSourceSpecs], ist \in BOOLEAN} :
           n \in 1..MaxSources}

\* A FixedSpikeTrainConfiguration: source i fires at the spike_times whose
\* spike_ids entry is i.
FixedConfigs ==
    UNION {{[weights |-> [i \in DOMAIN src |-> src[i][2]],
             spike_times |->
                 hstack([i \in DOMAIN src |->
                            [t \in 0..(Len(src[i][1]) - 1) |->
                                src[i][1][t + 1]]]),
             spike_ids |->
                 hstack([i \in DOMAIN src |->
                            ArrayOf(Len(src[i][1]), i)])] :
               src \in [0..(n - 1) -> FixedSourceSpecs]} :
           n \in 1..MaxSources}

\* The models nest.Models() reports: the models NEST ships, with or without the
\* lookahead_poisson_generator of a patched NEST.
NestModels == {"poisson_generator", "parrot_neuron",
               "sinusoidal_poisson_generator", "multi_poisson_generator"}

ModelLists == {NestModels, NestModels \cup {"lookahead_poisson_generator"}}

\* conversion.weight_pynn_to_nest: PyNN weights (uS, nA) in NEST units (nS, pA)
weight_pynn_to_nest(weights) == [i \in DOMAIN weights |-> 1000 * weights[i]]

\* ---------------------------------------------------------------------- state
VARIABLES
    sim,      \* the simulator module: has it a nest attribute
    call,     \* the call in progress and its arguments
    pc,       \* where the call is
    g,        \* sources_create_connect: the group being processed
    results,  \* sources_create_connect: the results list
    frame,    \* the locals of the create_connect in progress
    backend,  \* the simulator's state: nodes and connections created
    raised,   \* the exception that ended the call, "" when none
    attributes, \* the attributes of classes and configurations that are dicts
    earlier   \* the simulator calls of the same call run before, <<>> if none

vars == <<sim, call, pc, g, results, frame, backend, raised, attributes,
          earlier>>

\* PoissonPoolSourceConfiguration.fallback_nest_source_model_kwargs = {}
ClassAttributes == [fallback_nest_source_model_kwargs |-> <<>>]

NoFrame == [fn |-> "none"]

\* sources_create_connect(sim, samplers, duration, **kwargs) over a list of
\* samplers, or cfg.create_connect(sim, population, duration, **kwargs) on a
\* population (calibration).
Calls ==
    UNION {[fn : {"sources_create_connect"}, population : {FALSE},
            classes : [0..(n - 1) -> Classes], n : {n},
            nest_optimized : BOOLEAN] : n \in 1..MaxSamplers}
    \cup
    UNION {[fn : {"create_connect"}, population : {TRUE},
            classes : [0..0 -> Classes], n : {n},
            nest_optimized : BOOLEAN] : n \in 1..MaxSamplers}

Init ==
    /\ sim \in [has_nest : BOOLEAN]
    /\ call \in Calls
    /\ ~sim.has_nest => call.nest_optimized
    /\ pc = "create_connect"
    /\ g = 0
    /\ results = EmptyArray
    /\ frame = NoFrame
    /\ backend = [nodes |-> 0, connections |-> 0]
    /\ raised = ""
    /\ attributes = ClassAttributes
    /\ earlier = <<>>

\* sampler_same_src_cfg: the groups of sources_create_connect; the one group
\* of a create_connect on a population.
Groups ==
    IF call.population THEN Append0(EmptyArray, Range0(call.n))
    ELSE groupby(call.classes)

\* the class of l_samplers[0].source_config
GroupClass == call.classes[Groups[g][0]]

\* len(samplers) in the create_connect in progress
NumSamplers == Size(Groups[g])

\* The source configurations the create_connect in progress reads: the
\* configuration of every sampler of the list, or self for every cell of a
\* population.
ConfigsRead(Configs) ==
    IF "configs" \in DOMAIN call THEN {call.configs}
    ELSE IF call.population
    THEN {ArrayOf(NumSamplers, self) : self \in Configs}
    ELSE {cfgs \in [0..(NumSamplers - 1) -> Configs] :
             Sum([s \in DOMAIN cfgs |-> Size(cfgs[s].weights)])
                 <= MaxGroupSources}

\* The samplers argument as get_population_from_samplers reads it.
TargetsRead ==
    IF "target" \in DOMAIN call THEN {call.target}
    ELSE IF call.population
    THEN {[population |-> TRUE, n |-> NumSamplers, samplers |-> EmptyArray,
           pop_len |-> [p \in PopIds |-> 0]]}
    ELSE {[population |-> FALSE, n |-> NumSamplers,
           samplers |-> NetworkOf(pops), pop_len |-> PopLen(pops, extra)] :
              pops \in Networks(NumSamplers), extra \in 0..MaxExtraCells}

\* The cells the samplers argument stands for, in order.
TargetCells(target) ==
    IF target.population THEN all_cells("population", target.n)
    ELSE [k \in DOMAIN target.samplers |-> SamplerCell(target.samplers[k], k)]

Raise(exception) ==
    /\ pc' = "raised"
    /\ raised' = exception

\* nest.Models() as a compile reads it
ModelsRead == IF "models" \in DOMAIN sim THEN {sim.models} ELSE ModelLists

\* ------------------------------------------------------------------- backend
\* The ids of n nodes created after the first nodes: the simulator numbers
\* its nodes in the order of their creation.
GidsAfter(first, n) == [i \in 0..(n - 1) |-> first + i + 1]

\* rates.size: the number of parrots, one per source
rates_size_of_unique(rates) == Cardinality(Values(rates))

rates_size(rates) == Size(rates)

\* ---------------------------------------------------------- connect_one_to_one
\* is_exc = np.array(s_weights > 0., dtype=int); receptor_types[is_exc]
one_to_one_receptor_type(weight) ==
    IF weight > 0 THEN "excitatory" ELSE "inhibitory"

\* The conn_list connect_one_to_one builds for sampler j and one receptor type.
one_to_one_conn_list(s_weights, j, rectype, conductance_based) ==
    LET idx == Ascending({i \in DOMAIN s_weights :
                            one_to_one_receptor_type(s_weights[i]) = rectype})
    IN  [k \in DOMAIN idx |->
            <<idx[k], j, IF conductance_based THEN Abs(s_weights[idx[k]])
                         ELSE s_weights[idx[k]]>>]

\* connect_one_to_one(sim, sources, population, weights): for sampler j one
\* projection per receptor type from its sources to its population.
\* population is what get_population_from_samplers returned; population[j] of
\* a list that has no entry j raises IndexError, after the projections of the
\* samplers before j have been made.
connect_one_to_one(population, weights, conductance_based) ==
    LET ok(j) == population.single \/ j < Size(population.pops)
        made == {j \in DOMAIN weights : \A i \in 0..j : ok(i)}
        pop(j) == IF population.single
                  THEN [c \in {c \in {0} : j < Size(population.pops[0])} |->
                           population.pops[0][j]]
                  ELSE population.pops[j]
        projection(j, rectype) ==
            [sources |-> j, pop |-> pop(j), receptor_type |-> rectype,
             conn_list |-> one_to_one_conn_list(weights[j], j, rectype,
                                                conductance_based)]
    IN  [raised |-> IF made = DOMAIN weights THEN "" ELSE "IndexError",
         projections |->
            [rectype \in {"inhibitory", "excitatory"} |->
                [j \in made |-> projection(j, rectype)]]]

\* PoissonSourceConfiguration.get_distribution_parameters
get_distribution_parameters(self) ==
    LET is_exc == {i \in DOMAIN self.weights : self.weights[i] > 0}
        is_inh == DOMAIN self.weights \ is_exc
    IN  [rates_exc |-> Take(self.rates, Ascending(is_exc)),
         rates_inh |-> Take(self.rates, Ascending(is_inh)),
         weights_exc |-> Take(self.weights, Ascending(is_exc)),
         weights_inh |-> Take(self.weights, Ascending(is_inh))]

\* ------------------------------------------ PoissonSourceConfiguration (NEST)
\* create_connect taking the branch to create_nest_optimized, up to the
\* creation of the first node: the source model is chosen, the rates and
\* weights of all samplers are flattened, a population whose weights all have
\* one sign is refused, the rates are deduplicated.
Poisson_create_nest_optimized ==
    /\ pc = "create_connect"
    /\ GroupClass = "PoissonSourceConfiguration"
    /\ sim.has_nest /\ call.nest_optimized
    /\ \E cfgs \in ConfigsRead(PoissonConfigs), models \in ModelsRead :
         LET lookahead == "lookahead_poisson_generator" \in models
             rates == hstack([s \in DOMAIN cfgs |-> cfgs[s].rates])
             weights == hstack([s \in DOMAIN cfgs |-> cfgs[s].weights])
             num_sources_per_sampler ==
                 [s \in DOMAIN cfgs |-> Size(cfgs[s].rates)]
             u == unique(rates)
             locals ==
                 [fn |-> "create_nest_optimized",
                  self |-> cfgs[0],
                  source_configs |-> cfgs,
                  models |-> models,
                  source_model |-> IF lookahead
                                   THEN "lookahead_poisson_generator"
                                   ELSE "poisson_generator",
                  source_model_kwargs |-> IF lookahead THEN {"steps_lookahead"}
                                          ELSE {},
                  num_sources_per_sampler |-> num_sources_per_sampler,
                  rates |-> rates,
                  weights |-> weights,
                  offset_per_sampler |-> cumsum(num_sources_per_sampler),
                  uniq_rates |-> u.uniq,
                  idx_parrot_to_generator |-> u.inverse,
                  calls |-> <<>>]
         IN  /\ frame' = locals
             /\ IF call.population /\ \A i \in DOMAIN weights : weights[i] > 0
                THEN Raise("ValueError: all excitatory")
                ELSE IF call.population
                        /\ \A i \in DOMAIN weights : weights[i] < 0
                THEN Raise("ValueError: all inhibitory")
                ELSE pc' = "Poisson.create" /\ raised' = raised
    /\ UNCHANGED <<attributes, earlier, sim, call, g, results, backend>>

\* create_nest_optimized: the generators, the parrots, the generators' status.
Poisson_create ==
    /\ pc = "Poisson.create"
    /\ LET gid_generators == GidsAfter(backend.nodes, Size(frame.uniq_rates))
           gid_parrots == GidsAfter(backend.nodes + Size(frame.uniq_rates),
                                    rates_size(frame.rates))
       IN  /\ frame' =
                 [gid_generators |-> gid_generators,
                  gid_parrots |-> gid_parrots,
                  calls |->
                     <<[op |-> "Create", model |-> frame.source_model,
                        gids |-> gid_generators],
                       [op |-> "Create", model |-> "parrot_neuron",
                        gids |-> gid_parrots],
                       [op |-> "SetStatus", gids |-> gid_generators,
                        params |-> [i \in DOMAIN frame.uniq_rates |->
                                       [rate |-> frame.uniq_rates[i]]]]>>
                     \o (IF frame.source_model_kwargs # {}
                         THEN <<[op |-> "SetStatus", gids |-> gid_generators,
                                 params |-> frame.source_model_kwargs]>>
                         ELSE <<>>)] @@ frame
           /\ backend' = [backend EXCEPT
                          !.nodes = @ + Size(gid_generators) + Size(gid_parrots)]
    /\ pc' = "Poisson.connect"
    /\ UNCHANGED <<attributes, earlier, sim, call, g, results, raised>>

\* create_nest_optimized and SinusPoissonSourceConfiguration.create_nest end
\* alike: the populations of the samplers are looked up, every parrot is
\* connected to its generator and to its sampler.
Nest_connect ==
    /\ pc \in {"Poisson.connect", "Sinus.connect"}
    /\ \E target \in TargetsRead :
         LET list_pop == get_population_from_samplers(target, target.pop_len)
             gid_samplers == hstack(list_pop.pops)
             idx_samplers ==
                 [i_parrot \in DOMAIN frame.gid_parrots |->
                     idx_parrot_to_sampler(i_parrot, frame.offset_per_sampler)]
             generator_to_parrot ==
                 [i \in DOMAIN frame.gid_parrots |->
                     <<frame.gid_generators[frame.idx_parrot_to_generator[i]],
                       frame.gid_parrots[i]>>]
             converted == weight_pynn_to_nest(frame.weights)
             parrot_to_sampler ==
                 [i \in DOMAIN frame.gid_parrots |->
                     <<frame.gid_parrots[i], gid_samplers[idx_samplers[i]],
                       converted[i]>>]
         IN  IF list_pop.raised # ""
             THEN /\ Raise(list_pop.raised)
                  /\ frame' = [cells |-> TargetCells(target)] @@ frame
                  /\ backend' = backend
             ELSE IF \E i \in DOMAIN idx_samplers :
                         idx_samplers[i] \notin DOMAIN gid_samplers
             THEN /\ Raise("IndexError")
                  /\ frame' =
                        [cells |-> TargetCells(target),
                         calls |-> Append(frame.calls,
                            [op |-> "Connect", rule |-> "one_to_one",
                             conns |-> generator_to_parrot])] @@ frame
                  /\ backend' = [backend EXCEPT
                                 !.connections = @ + Size(generator_to_parrot)]
             ELSE /\ pc' = "return"
                  /\ raised' = raised
                  /\ frame' =
                        [cells |-> TargetCells(target),
                         gid_samplers |-> gid_samplers,
                         generator_to_parrot |-> generator_to_parrot,
                         parrot_to_sampler |-> parrot_to_sampler,
                         calls |-> frame.calls \o
                           <<[op |-> "Connect", rule |-> "one_to_one",
                              conns |-> generator_to_parrot],
                             [op |-> "Connect", rule |-> "one_to_one",
                              conns |-> parrot_to_sampler]>>] @@ frame
                  /\ backend' = [backend EXCEPT
                                 !.connections = @ + Size(generator_to_parrot)
                                                   + Size(parrot_to_sampler)]
    /\ UNCHANGED <<attributes, earlier, sim, call, g, results>>

\* ------------------------------------------- SinusPoissonSourceConfiguration
\* create_connect without NEST
Sinus_create_connect_other_backend ==
    /\ pc = "create_connect"
    /\ GroupClass = "SinusPoissonSourceConfiguration"
    /\ ~sim.has_nest
    /\ Raise("NotImplementedError")
    /\ UNCHANGED <<attributes, earlier, sim, call, g, results, frame, backend>>

\* create_connect and create_nest up to the creation of the first node: the
\* parameters and weights of all samplers are flattened, samplers that
\* disagree on individual_spike_trains and a population whose weights all
\* have one sign are refused, the parameter tuples are deduplicated.
Sinus_create_nest ==
    /\ pc = "create_connect"
    /\ GroupClass = "SinusPoissonSourceConfiguration"
    /\ sim.has_nest
    /\ \E cfgs \in ConfigsRead(SinusConfigs) :
         LET params == hstack([s \in DOMAIN cfgs |-> cfgs[s].params])
             weights == hstack([s \in DOMAIN cfgs |-> cfgs[s].weights])
             num_sources_per_sampler ==
                 [s \in DOMAIN cfgs |-> Size(cfgs[s].params)]
             individual_spike_trains == cfgs[0].individual_spike_trains
             unique_source_configurations ==
                 group_identical_parameters(params)
             locals ==
                 [fn |-> "create_nest",
                  self |-> cfgs[0],
                  source_configs |-> cfgs,
                  num_sources_per_sampler |-> num_sources_per_sampler,
                  params |-> params,
                  weights |-> weights,
                  individual_spike_trains |-> individual_spike_trains,
                  offset_per_sampler |-> cumsum(num_sources_per_sampler),
                  num_parrots |-> rates_size(params),
                  unique_source_configurations |->
                      unique_source_configurations,
                  num_generators |-> Size(unique_source_configurations),
                  calls |-> <<>>]
         IN  /\ frame' = locals
             /\ IF ~call.population
                   /\ \E s \in DOMAIN cfgs :
                         cfgs[s].individual_spike_trains
                             # individual_spike_trains
                THEN Raise("ValueError: individual_spike_trains")
                ELSE IF call.population
                        /\ \A i \in DOMAIN weights : weights[i] > 0
                THEN Raise("ValueError: all excitatory")
                ELSE IF call.population
                        /\ \A i \in DOMAIN weights : weights[i] < 0
                THEN Raise("ValueError: all inhibitory")
                ELSE pc' = "Sinus.create" /\ raised' = raised
    /\ UNCHANGED <<attributes, earlier, sim, call, g, results, backend>>

\* idx_parrot_to_generator = zeros; idx_parrot_to_generator[idx] = i for
\* every (idx, parameters) number i
Sinus_idx_parrot_to_generator(num_parrots, unique_source_configurations) ==
    [p \in 0..(num_parrots - 1) |->
        LET hits == {i \in DOMAIN unique_source_configurations :
                        p \in unique_source_configurations[i].idx}
        IN  IF hits = {} THEN 0 ELSE Max(hits)]

\* create_nest: the generators, with individual_spike_trains unset the layer
\* of parrots between the generators and the parrots of the samplers, the
\* parrots, the status of the generators.  nest.Create of a model nest does
\* not have raises NESTError.
Sinus_create ==
    /\ pc = "Sinus.create"
    /\ \E models \in ModelsRead :
         LET n == frame.num_generators
             first_gid_generators == GidsAfter(backend.nodes, n)
             shared == ~frame.individual_spike_trains
             layer == GidsAfter(backend.nodes + n, n)
             gid_generators == IF shared THEN layer ELSE first_gid_generators
             made == IF shared THEN n + n ELSE n
             gid_parrots == GidsAfter(backend.nodes + made, frame.num_parrots)
             create_generators ==
                 <<[op |-> "Create", model |-> "sinusoidal_poisson_generator",
                    gids |-> first_gid_generators]>>
             create_layer ==
                 IF shared
                 THEN <<[op |-> "Create", model |-> "parrot_neurons",
                         gids |-> layer],
                        [op |-> "Connect", rule |-> "one_to_one",
                         conns |-> [i \in DOMAIN layer |->
                                       <<first_gid_generators[i], layer[i]>>]]>>
                 ELSE <<>>
             set_status ==
                 [i \in 1..n |->
                     [op |-> "SetStatus",
                      gids |-> Append0(EmptyArray, gid_generators[i - 1]),
                      params |-> frame.unique_source_configurations[i - 1]
                                     .parameters]]
         IN  IF shared /\ "parrot_neurons" \notin models
             THEN /\ Raise("NESTError: unknown model parrot_neurons")
                  /\ frame' = [hidden_gid_generators |-> first_gid_generators,
                               calls |-> create_generators] @@ frame
                  /\ backend' = [backend EXCEPT !.nodes = @ + n]
             ELSE /\ pc' = "Sinus.connect"
                  /\ raised' = raised
                  /\ frame' =
                        [hidden_gid_generators |->
                             IF shared THEN first_gid_generators
                             ELSE EmptyArray,
                         gid_generators |-> gid_generators,
                         gid_parrots |-> gid_parrots,
                         idx_parrot_to_generator |->
                             Sinus_idx_parrot_to_generator(
                                 frame.num_parrots,
                                 frame.unique_source_configurations),
                         calls |-> create_generators \o create_layer
                                   \o <<[op |-> "Create",
                                         model |-> "parrot_neuron",
                                         gids |-> gid_parrots]>>
                                   \o set_status] @@ frame
                  /\ backend' = [backend EXCEPT
                         !.nodes = @ + made + frame.num_parrots,
                         !.connections = @ + (IF shared THEN n ELSE 0)]
    /\ UNCHANGED <<attributes, earlier, sim, call, g, results>>

\* ---------------------------------------- PoissonSourceConfiguration (PyNN)
\* create_connect taking the branch to create_regular: one population of
\* SpikeSourcePoisson per sampler, one source per rate.
Poisson_create_regular ==
    /\ pc = "create_connect"
    /\ GroupClass = "PoissonSourceConfiguration"
    /\ ~(sim.has_nest /\ call.nest_optimized)
    /\ \E cfgs \in ConfigsRead(PoissonConfigs) :
         LET rates == [s \in DOMAIN cfgs |-> cfgs[s].rates]
             first(s) == backend.nodes
                         + Sum([t \in 0..(s - 1) |-> Size(rates[t])])
             sources == [s \in DOMAIN rates |->
                            GidsAfter(first(s), Size(rates[s]))]
         IN  /\ frame' =
                   [fn |-> "create_regular",
                    self |-> cfgs[0],
                    rates |-> rates,
                    weights |-> [s \in DOMAIN cfgs |-> cfgs[s].weights],
                    sources |-> sources,
                    calls |-> [s \in 1..Size(rates) |->
                                  [op |-> "Population",
                                   model |-> "SpikeSourcePoisson",
                                   gids |-> sources[s - 1],
                                   params |-> rates[s - 1]]]]
             /\ backend' = [backend EXCEPT
                    !.nodes = @ + Sum([s \in DOMAIN rates |-> Size(rates[s])])]
    /\ pc' = "Poisson.connect_regular"
    /\ UNCHANGED <<attributes, earlier, sim, call, g, results, raised>>

\* create_connect after create_regular: the populations of the samplers are
\* looked up and connect_one_to_one connects every source to its sampler.
Poisson_connect_regular ==
    /\ pc = "Poisson.connect_regular"
    /\ \E target \in TargetsRead, conductance_based \in BOOLEAN :
         LET population == get_population_from_samplers(target, target.pop_len)
             connected == connect_one_to_one(population, frame.weights,
                                             conductance_based)
             made == connected.projections
             connections ==
                 Sum([j \in DOMAIN made["inhibitory"] |->
                         Size(made["inhibitory"][j].conn_list)
                         + Size(made["excitatory"][j].conn_list)])
         IN  IF population.raised # ""
             THEN /\ Raise(population.raised)
                  /\ frame' = [cells |-> TargetCells(target)] @@ frame
                  /\ backend' = backend
             ELSE /\ frame' = [cells |-> TargetCells(target),
                               population |-> population,
                               conductance_based |-> conductance_based,
                               projections |-> made] @@ frame
                  /\ backend' = [backend EXCEPT !.connections = @ + connections]
                  /\ IF connected.raised # ""
                     THEN Raise(connected.raised)
                     ELSE pc' = "return" /\ raised' = raised
    /\ UNCHANGED <<attributes, earlier, sim, call, g, results>>

\* ---------------------------------------------- FixedSpikeTrainConfiguration
\* spike_times[spike_ids == i]
spike_times_of(sc, i) ==
    Take(sc.spike_times,
         Ascending({t \in DOMAIN sc.spike_ids : sc.spike_ids[t] = i}))

get_index_last_only(all_spike_times, spike_times) ==
    LET last == Size(all_spike_times) - 1
    IN  IF last >= 0 /\ all_spike_times[last] = spike_times
        THEN [index |-> last, all_spike_times |-> all_spike_times]
        ELSE [index |-> Size(all_spike_times),
              all_spike_times |-> Append0(all_spike_times, spike_times)]

\* get_index: the position of spike_times in all_spike_times, which gets it
\* appended when it is not in there.
get_index(all_spike_times, spike_times) ==
    LET same == {i \in DOMAIN all_spike_times :
                    /\ Size(spike_times) = Size(all_spike_times[i])
                    /\ \A t \in DOMAIN spike_times :
                          all_spike_times[i][t] = spike_times[t]}
    IN  IF same # {}
        THEN [index |-> Min(same), all_spike_times |-> all_spike_times]
        ELSE [index |-> Size(all_spike_times),
              all_spike_times |-> Append0(all_spike_times, spike_times)]

\* The loops of create_connect_regular over the sources (i, w) of a
\* configuration, from source i on: with posts the samplers the source is
\* connected to, in order.
RECURSIVE note_sources(_, _, _, _)
note_sources(sc, i, posts, acc) ==
    IF i >= Size(sc.weights) THEN acc
    ELSE LET found == get_index(acc.all_spike_times, spike_times_of(sc, i))
         IN  note_sources(sc, i + 1, posts,
                 [all_spike_times |-> found.all_spike_times,
                  conn_list |->
                     Concat(acc.conn_list,
                            [k \in DOMAIN posts |->
                                <<found.index, posts[k], sc.weights[i]>>])])

RECURSIVE note_samplers(_, _, _)
note_samplers(cfgs, j, acc) ==
    IF j >= Size(cfgs) THEN acc
    ELSE note_samplers(cfgs, j + 1,
             note_sources(cfgs[j], 0, Append0(EmptyArray, j), acc))

\* the entries of conn_list that satisfy keep, in order
Select(conn_list, kept) ==
    Take(conn_list, Ascending({k \in DOMAIN conn_list : conn_list[k] \in kept}))

\* connect_sources_regular: "inh" for weight < 0, "exc" for weight >= 0
regular_connection_type(weight) == IF weight < 0 THEN "inh" ELSE "exc"

\* connect_sources_regular(sim, sources, population, conn_list): one projection
\* per connection type to the one population, or one per connection type and
\* entry of the list of populations.
connect_sources_regular(population, conn_list, conductance_based) ==
    LET trans(w) == IF conductance_based THEN Abs(w) ELSE w
        one(ct) ==
            LET cl == Select(conn_list,
                             {c \in Values(conn_list) :
                                 regular_connection_type(c[3]) = ct})
            IN  [pop |-> population.pops[0],
                 conn_list |-> [k \in DOMAIN cl |->
                                   <<cl[k][1], cl[k][2], trans(cl[k][3])>>]]
        each(ct, j) ==
            LET cl == Select(conn_list,
                             {c \in Values(conn_list) :
                                 regular_connection_type(c[3]) = ct
                                 /\ c[2] = j})
            IN  [pop |-> population.pops[j],
                 conn_list |-> [k \in DOMAIN cl |->
                                   <<cl[k][1], 0, trans(cl[k][3])>>]]
    IN  [ct \in {"inh", "exc"} |->
            IF population.single
            THEN Append0(EmptyArray, one(ct))
            ELSE [j \in DOMAIN population.pops |-> each(ct, j)]]

\* create_connect and create_connect_regular up to create_sources_regular:
\* the populations of the samplers are looked up, the spike trains are
\* deduplicated into all_spike_times and conn_list notes which source goes to
\* which sampler with which weight, one SpikeSourceArray per spike train is
\* created.
Fixed_create_connect_regular ==
    /\ pc = "create_connect"
    /\ GroupClass = "FixedSpikeTrainConfiguration"
    /\ \E cfgs \in ConfigsRead(FixedConfigs), target \in TargetsRead :
         LET population == get_population_from_samplers(target, target.pop_len)
             start == [all_spike_times |-> EmptyArray,
                       conn_list |-> EmptyArray]
             noted == IF call.population
                      THEN note_sources(cfgs[0], 0, Range0(NumSamplers), start)
                      ELSE note_samplers(cfgs, 0, start)
             sources == GidsAfter(backend.nodes, Size(noted.all_spike_times))
         IN  IF population.raised # ""
             THEN /\ Raise(population.raised)
                  /\ frame' = [fn |-> "create_connect_regular",
                               cells |-> TargetCells(target)]
                  /\ backend' = backend
             ELSE /\ pc' = "Fixed.connect"
                  /\ raised' = raised
                  /\ frame' =
                        [fn |-> "create_connect_regular",
                         self |-> cfgs[0],
                         cells |-> TargetCells(target),
                         weights |-> [s \in DOMAIN cfgs |-> cfgs[s].weights],
                         population |-> population,
                         all_spike_times |-> noted.all_spike_times,
                         conn_list |-> noted.conn_list,
                         sources |-> sources,
                         calls |-> <<[op |-> "Population",
                                      model |-> "SpikeSourceArray",
                                      gids |-> sources,
                                      params |-> noted.all_spike_times]>>]
                  /\ backend' = [backend EXCEPT !.nodes = @ + Size(sources)]
    /\ UNCHANGED <<attributes, earlier, sim, call, g, results>>

\* create_connect_regular: connect_sources_regular
Fixed_connect_sources_regular ==
    /\ pc = "Fixed.connect"
    /\ \E conductance_based \in BOOLEAN :
         LET projections == connect_sources_regular(
                                frame.population, frame.conn_list,
                                conductance_based)
             connections ==
                 Sum([j \in DOMAIN projections["inh"] |->
                         Size(projections["inh"][j].conn_list)
                         + Size(projections["exc"][j].conn_list)])
         IN  /\ frame' = [conductance_based |-> conductance_based,
                          projections |-> projections] @@ frame
             /\ backend' = [backend EXCEPT !.connections = @ + connections]
    /\ pc' = "return"
    /\ UNCHANGED <<attributes, earlier, sim, call, g, results, raised>>

\* --------------------------------------------------- sources_create_connect
\* create_connect returns (sources, projections); sources_create_connect
\* appends it to results and goes on with the next group, or returns results.
Return ==
    /\ pc = "return"
    /\ results' = Append0(results, [cls |-> GroupClass, samplers |-> Groups[g],
                                    fn |-> frame.fn])
    /\ g' = g + 1
    /\ frame' = NoFrame
    /\ pc' = IF g + 1 < Size(Groups) THEN "create_connect" ELSE "returned"
    /\ UNCHANGED <<attributes, earlier, sim, call, backend, raised>>

Next ==
    \/ Poisson_create_nest_optimized
    \/ Poisson_create
    \/ Nest_connect
    \/ Sinus_create_connect_other_backend
    \/ Sinus_create_nest
    \/ Sinus_create
    \/ Poisson_create_regular
    \/ Poisson_connect_regular
    \/ Fixed_create_connect_regular
    \/ Fixed_connect_sources_regular
    \/ Return

Spec == Init /\ [][Next]_vars

\* ------------------------------------------------- the offset index on its own
\* idx_parrot_to_sampler applied to one flat slot of the sources of targets
\* with the given numbers of sources.
InitOffsets ==
    /\ sim = [has_nest |-> TRUE]
    /\ call = [fn |-> "idx_parrot_to_sampler"]
    /\ pc = "offsets"
    /\ g = 0
    /\ results = EmptyArray
    /\ \E n \in 1..MaxOffsetTargets :
         \E num_sources_per_sampler \in [0..(n - 1) -> 0..MaxOffsetCount] :
            frame = [fn |-> "idx_parrot_to_sampler",
                     num_sources_per_sampler |-> num_sources_per_sampler,
                     offset_per_sampler |-> cumsum(num_sources_per_sampler)]
    /\ backend = [nodes |-> 0, connections |-> 0]
    /\ raised = ""
    /\ attributes = ClassAttributes
    /\ earlier = <<>>

Lookup ==
    /\ pc = "offsets"
    /\ \E idx \in 0..(Sum(frame.num_sources_per_sampler) - 1) :
         frame' = [idx |-> idx,
                   sampler |-> idx_parrot_to_sampler(
                                   idx, frame.offset_per_sampler)] @@ frame
    /\ pc' = "looked up"
    /\ UNCHANGED <<attributes, earlier, sim, call, g, results, backend, raised>>

SpecOffsets == InitOffsets /\ [][Lookup]_vars

\* --------------------------------------------- deduplication on its own
MaxPermLen == 3

\* the rates of the sources of a compile
PermRates == {1, 2, 3}

\* the spike trains of the sources of a compile with their weights: two
\* sources with the same train, trains of equal and of different length
PermTrains == FixedSourceSpecs \cup {<<<<20>>, 1>>}

Orders(n) ==
    {p \in [0..(n - 1) -> 0..(n - 1)] :
        \A i, j \in 0..(n - 1) : p[i] = p[j] => i = j}

\* The FixedSpikeTrainConfiguration of a sequence of (spike times, weight)
\* pairs, as FixedConfigs builds it.
FixedConfigOf(src) ==
    [weights |-> [i \in DOMAIN src |-> src[i][2]],
     spike_times |->
         hstack([i \in DOMAIN src |->
                    [t \in 0..(Len(src[i][1]) - 1) |-> src[i][1][t + 1]]]),
     spike_ids |->
         hstack([i \in DOMAIN src |-> ArrayOf(Len(src[i][1]), i)])]

\* The sources of one compile and a permutation of them.
InitPermute ==
    /\ sim = [has_nest |-> TRUE]
    /\ \E n \in 1..MaxPermLen :
         \E perm \in Orders(n) :
            \/ \E rates \in [0..(n - 1) -> PermRates] :
                  call = [fn |-> "np.unique", rates |-> rates, perm |-> perm]
            \/ \E src \in [0..(n - 1) -> PermTrains] :
                  call = [fn |-> "get_index", src |-> src, perm |-> perm]
    /\ pc = "given"
    /\ g = 0
    /\ results = EmptyArray
    /\ frame = NoFrame
    /\ backend = [nodes |-> 0, connections |-> 0]
    /\ raised = ""
    /\ attributes = ClassAttributes
    /\ earlier = <<>>

\* np.unique(rates, return_inverse=True) of the rates as given and permuted
Permute_unique ==
    /\ pc = "given"
    /\ call.fn = "np.unique"
    /\ frame' = [fn |-> "np.unique",
                 given |-> unique(call.rates),
                 permuted |-> unique(Take(call.rates, call.perm))]
    /\ pc' = "deduplicated"
    /\ UNCHANGED <<attributes, earlier, sim, call, g, results, backend, raised>>

\* the loop of create_connect_regular over the sources of one sampler, for
\* the sources as given and permuted
Permute_get_index ==
    /\ pc = "given"
    /\ call.fn = "get_index"
    /\ LET start == [all_spike_times |-> EmptyArray, conn_list |-> EmptyArray]
           posts == Append0(EmptyArray, 0)
       IN  frame' = [fn |-> "get_index",
                     given |-> note_sources(FixedConfigOf(call.src), 0,
                                            posts, start),
                     permuted |->
                         note_sources(FixedConfigOf(Take(call.src, call.perm)),
                                      0, posts, start)]
    /\ pc' = "deduplicated"
    /\ UNCHANGED <<attributes, earlier, sim, call, g, results, backend, raised>>

NextPermute == Permute_unique \/ Permute_get_index

SpecPermute == InitPermute /\ [][NextPermute]_vars

\* ------------------------------------------------------ train_rbm_pcd
\* Times are counted in units of 0.5 ms: NEST_MAX_TIME is 26843545.5 ms.
NEST_MAX_TIME == 53687091

MaxSteps == 4

\* bm.time_current > 0.95 * NEST_MAX_TIME
over_limit_never(time_current) == FALSE

over_limit(time_current) == 20 * time_current > 19 * NEST_MAX_TIME

\* The calls of train_rbm_pcd: num_steps steps on data of one visible unit
\* with one hidden unit; a run of the network takes time_run, a
\* reconstruction step recon_step: 50 ms and 10 ms, or so long that the second
\* step ends between 0.95 * NEST_MAX_TIME and NEST_MAX_TIME.
TrainCalls ==
    [fn : {"train_rbm_pcd"}, num_steps : 1..MaxSteps,
     time_run : {100, 16000000}, recon_step : {20, 5000000}]

\* init_net(): a network of bm_type created from bm_init_kwargs, at time 0
\* with the weights and biases it is initialised with
init_net ==
    [time_current |-> 0, weights_theo |-> 0, biases_theo |-> <<0, 0>>,
     update_factors |-> <<<<0, 0>>, <<0, 0>>>>]

\* bm.queue_update(): the weight between the visible and the hidden unit
\* grows by eta times the difference of the correlations in
\* update_factors[:, 1] and update_factors[:, 2]; weights in units of eta
queue_update(bm) ==
    [bm EXCEPT !.weights_theo =
        @ + bm.update_factors[1][1] * bm.update_factors[2][1]
          - bm.update_factors[1][2] * bm.update_factors[2][2]]

InitTraining ==
    /\ sim = [has_nest |-> TRUE]
    /\ call \in TrainCalls
    /\ pc = "train_rbm_pcd"
    /\ g = 0
    /\ results = EmptyArray
    /\ frame = NoFrame
    /\ backend = [nodes |-> 0, connections |-> 0]
    /\ raised = ""
    /\ attributes = ClassAttributes
    /\ earlier = <<>>

\* train_rbm_pcd up to its loop
Train_init ==
    /\ pc = "train_rbm_pcd"
    /\ \E visible_state_model \in 0..1 :
          frame' = [fn |-> "train_rbm_pcd", bm |-> init_net, i_step |-> 0,
                    visible_state_model |-> visible_state_model]
    /\ pc' = "step"
    /\ UNCHANGED <<attributes, earlier, sim, call, g, results, backend, raised>>

\* one step of the loop up to the test of the time: bm.run() and the two
\* bm.continue_run(recon_step), with the states read after each
Train_runs ==
    /\ pc = "step"
    /\ frame.i_step < call.num_steps
    /\ \E visible_state_data \in 0..1, hidden_state_1 \in 0..1,
          visible_state_model \in 0..1, hidden_state_2 \in 0..1 :
          frame' = [visible_state_data |-> visible_state_data,
                    hidden_state_1 |-> hidden_state_1,
                    visible_state_model |-> visible_state_model,
                    hidden_state_2 |-> hidden_state_2,
                    bm |-> [frame.bm EXCEPT !.time_current =
                               @ + call.time_run + call.recon_step
                                 + call.recon_step]] @@ frame
    /\ pc' = "check"
    /\ UNCHANGED <<attributes, earlier, sim, call, g, results, backend, raised>>

\* if bm.time_current > 0.95 * NEST_MAX_TIME: the network is killed and a new
\* one initialised, which gets the weights_theo of the old one
Train_rebuild ==
    /\ pc = "check"
    /\ IF over_limit(frame.bm.time_current)
       THEN frame' = [bm |-> [init_net EXCEPT
                                 !.weights_theo = frame.bm.weights_theo],
                      killed |-> frame.bm,
                      rebuilt |-> TRUE] @@ frame
       ELSE frame' = [rebuilt |-> FALSE] @@ frame
    /\ pc' = "update"
    /\ UNCHANGED <<attributes, earlier, sim, call, g, results, backend, raised>>

\* the rest of the step: the update factors, the biases, bm.queue_update()
Train_update ==
    /\ pc = "update"
    /\ LET update_factors ==
               <<<<frame.visible_state_data, frame.visible_state_model>>,
                 <<frame.hidden_state_1, frame.hidden_state_2>>>>
           bias_update ==
               <<frame.visible_state_data - frame.visible_state_model,
                 frame.hidden_state_1 - frame.hidden_state_2>>
           bm == [frame.bm EXCEPT
                     !.biases_theo = <<@[1] + bias_update[1],
                                       @[2] + bias_update[2]>>,
                     !.update_factors = update_factors]
       IN  frame' = [frame EXCEPT !.bm = queue_update(bm), !.i_step = @ + 1]
    /\ pc' = "step"
    /\ UNCHANGED <<attributes, earlier, sim, call, g, results, backend, raised>>

\* return bm.weights_theo
Train_return ==
    /\ pc = "step"
    /\ frame.i_step >= call.num_steps
    /\ results' = Append0(results, frame.bm.weights_theo)
    /\ pc' = "return"
    /\ UNCHANGED <<attributes, earlier, sim, call, g, frame, backend, raised>>

NextTraining ==
    \/ Train_init
    \/ Train_runs
    \/ Train_rebuild
    \/ Train_update
    \/ Train_return

SpecTraining == InitTraining /\ [][NextTraining]_vars

\* ------------------------------------------- _consolidate_sources on its own
MaxConsolidateLen == 3

\* the (rate changes, weight) pairs of the sources to consolidate: rate
\* changes of one row and of two, equal and different ones, two equal rows
ConsolidateSpecs ==
    {<<rc, w>> :
        rc \in {Append0(EmptyArray, <<0, 1>>),
                Append0(EmptyArray, <<0, 2>>),
                Append0(Append0(EmptyArray, <<0, 1>>), <<10, 2>>),
                Append0(Append0(EmptyArray, <<0, 1>>), <<0, 1>>)},
        w \in {1, -1}}

\* np.any(rc != rc_cons) for arrays of shape (n, 2) and (m, 2): elementwise
\* when n = m, one row against every row when n or m is 1; arrays that do
\* not broadcast compare unequal as a whole.
rc_any_differs(rc, rc_cons) ==
    IF Size(rc) = Size(rc_cons)
    THEN \E k \in DOMAIN rc : rc[k] # rc_cons[k]
    ELSE IF Size(rc) = 1 THEN \E k \in DOMAIN rc_cons : rc_cons[k] # rc[0]
    ELSE IF Size(rc_cons) = 1 THEN \E k \in DOMAIN rc : rc[k] # rc_cons[0]
    ELSE TRUE

\* _consolidate_sources, the loop over the sources from source k on.  The
\* inner loop has no break: its else branch runs for every source, after the
\* index of every entry found equal has been appended.
RECURSIVE consolidate_from(_, _, _, _)
consolidate_from(weights_per_source, rate_changes_per_source, k, acc) ==
    IF k >= Min({Size(weights_per_source), Size(rate_changes_per_source)})
    THEN acc
    ELSE LET w == weights_per_source[k]
             rc == rate_changes_per_source[k]
             duplicates ==
                 Ascending({i \in DOMAIN acc.weight_per_consolidated_source :
                     /\ w = acc.weight_per_consolidated_source[i]
                     /\ ~rc_any_differs(
                            rc, acc.rate_changes_per_consolidated_source[i])})
         IN  consolidate_from(weights_per_source, rate_changes_per_source,
                 k + 1,
                 [weight_per_consolidated_source |->
                      Append0(acc.weight_per_consolidated_source, w),
                  rate_changes_per_consolidated_source |->
                      Append0(acc.rate_changes_per_consolidated_source, rc),
                  idx_source_to_consolidated |->
                      Append0(Concat(acc.idx_source_to_consolidated,
                                     duplicates),
                              Size(acc.weight_per_consolidated_source))])

\* The sources handed to _consolidate_sources, called as the classmethod it
\* is declared as or as the plain function underneath.
InitConsolidate ==
    /\ sim = [has_nest |-> TRUE]
    /\ \E n \in 1..MaxConsolidateLen :
         \E src \in [0..(n - 1) -> ConsolidateSpecs],
            via \in {"classmethod", "function"} :
            call = [fn |-> "_consolidate_sources", via |-> via,
                    weights_per_source |-> [i \in DOMAIN src |-> src[i][2]],
                    rate_changes_per_source |->
                        [i \in DOMAIN src |-> src[i][1]]]
    /\ pc = "given"
    /\ g = 0
    /\ results = EmptyArray
    /\ frame = NoFrame
    /\ backend = [nodes |-> 0, connections |-> 0]
    /\ raised = ""
    /\ attributes = ClassAttributes
    /\ earlier = <<>>

\* cls._consolidate_sources(weights_per_source, rate_changes_per_source): the
\* classmethod takes two parameters and gets the class as a third argument
Consolidate_classmethod ==
    /\ pc = "given"
    /\ call.via = "classmethod"
    /\ Raise("TypeError")
    /\ UNCHANGED <<attributes, earlier, sim, call, g, results, frame, backend>>

\* the function itself on the two arguments
Consolidate_function ==
    /\ pc = "given"
    /\ call.via = "function"
    /\ frame' =
          [fn |-> "_consolidate_sources"]
          @@ consolidate_from(
                 call.weights_per_source, call.rate_changes_per_source, 0,
                 [weight_per_consolidated_source |-> EmptyArray,
                  rate_changes_per_consolidated_source |-> EmptyArray,
                  idx_source_to_consolidated |-> EmptyArray])
    /\ pc' = "consolidated"
    /\ UNCHANGED <<attributes, earlier, sim, call, g, results, backend, raised>>

NextConsolidate == Consolidate_classmethod \/ Consolidate_function

SpecConsolidate == InitConsolidate /\ [][NextConsolidate]_vars

\* ------------------------------------------------------ construction on its own
\* A numpy array as construction gets it: its shape and its entries in C
\* order.  An array of one entry holds 2, every other array holds ones.
NdArray(shape, value) ==
    [shape |-> shape,
     flat |-> ArrayOf(IF shape = <<>> THEN 1 ELSE shape[1], value)]

ParamArrays ==
    {NdArray(<<>>, 2), NdArray(<<1>>, 2)}
    \cup {NdArray(<<n>>, 1) : n \in (0..MaxParamLen) \ {1}}

\* numpy.ndarray.size
ndsize(a) == Size(a.flat)

\* np.array([param] * weights.size) of a param with one entry
broadcast_keeps_param(param, weights) == param

broadcast(param, weights) ==
    [shape |-> <<ndsize(weights)>> \o param.shape,
     flat |-> ArrayOf(ndsize(weights), param.flat[0])]

SinusParamNames == <<"rates", "amplitudes", "frequencies", "phases">>

\* SinusPoissonSourceConfiguration._verify_parameters: the loop over the
\* parameter names, from name number k on.
RECURSIVE verify_parameters_from(_, _)
verify_parameters_from(self, k) ==
    IF k > Len(SinusParamNames) THEN [raised |-> "", self |-> self]
    ELSE LET param_name == SinusParamNames[k]
             param == self[param_name]
         IN  IF ndsize(param) = 1
             THEN verify_parameters_from(
                      [self EXCEPT ![param_name] =
                                       broadcast(param, self.weights)],
                      k + 1)
             ELSE IF ndsize(param) # ndsize(self.weights)
             THEN [raised |-> "ValueError: " \o param_name, self |-> self]
             ELSE verify_parameters_from(self, k + 1)

InitConstruct ==
    /\ sim = [has_nest |-> TRUE]
    /\ \/ call \in [fn : {"__init__"}, cls : {"PoissonSourceConfiguration"},
                     kwargs : [weights : ParamArrays, rates : ParamArrays]]
       \/ call \in [fn : {"__init__"},
                     cls : {"SinusPoissonSourceConfiguration"},
                     kwargs : [weights : ParamArrays, rates : ParamArrays,
                               amplitudes : ParamArrays,
                               frequencies : ParamArrays,
                               phases : ParamArrays]]
    /\ pc = "__init__"
    /\ g = 0
    /\ results = EmptyArray
    /\ frame = NoFrame
    /\ backend = [nodes |-> 0, connections |-> 0]
    /\ raised = ""
    /\ attributes = ClassAttributes
    /\ earlier = <<>>

\* SourceConfiguration.__init__ of a PoissonSourceConfiguration: the
\* attributes are set as given, then _verify_parameters
Poisson_verify_parameters ==
    /\ pc = "__init__"
    /\ call.cls = "PoissonSourceConfiguration"
    /\ LET self == call.kwargs
       IN  IF ndsize(self.rates) = 1
           THEN /\ frame' = [fn |-> "__init__",
                             self |-> [self EXCEPT !.rates =
                                          broadcast(self.rates, self.weights)]]
                /\ pc' = "constructed"
                /\ raised' = raised
           ELSE /\ frame' = [fn |-> "__init__", self |-> self]
                /\ IF ndsize(self.rates) # ndsize(self.weights)
                   THEN Raise("ValueError: rates")
                   ELSE pc' = "constructed" /\ raised' = raised
    /\ UNCHANGED <<attributes, earlier, sim, call, g, results, backend>>

\* SourceConfiguration.__init__ of a SinusPoissonSourceConfiguration
Sinus_verify_parameters ==
    /\ pc = "__init__"
    /\ call.cls = "SinusPoissonSourceConfiguration"
    /\ LET verified == verify_parameters_from(call.kwargs, 1)
       IN  /\ frame' = [fn |-> "__init__", self |-> verified.self]
           /\ IF verified.raised # ""
              THEN Raise(verified.raised)
              ELSE pc' = "constructed" /\ raised' = raised
    /\ UNCHANGED <<attributes, earlier, sim, call, g, results, backend>>

SpecConstruct ==
    InitConstruct /\ [][Poisson_verify_parameters \/ Sinus_verify_parameters]_vars

\* --------------------------------------------- one create_connect on its own
\* The targets of one create_connect whose arguments are all known when it is
\* called: a population of n cells, or n samplers in a list.
KnownTargets(n) ==
    {[population |-> TRUE, n |-> n, samplers |-> EmptyArray,
      pop_len |-> [p \in PopIds |-> 0]]}
    \cup {[population |-> FALSE, n |-> n, samplers |-> NetworkOf(pops),
           pop_len |-> PopLen(pops, extra)] :
              pops \in Networks(n), extra \in 0..MaxExtraCells}

\* create_connect of a PoissonSourceConfiguration through create_nest_optimized
PoissonCalls ==
    UNION {UNION {{[fn |-> "create_connect", population |-> target.population,
                    classes |-> ArrayOf(n, "PoissonSourceConfiguration"),
                    n |-> n, nest_optimized |-> TRUE, configs |-> configs,
                    target |-> target] :
                      configs \in {c \in [0..(n - 1) -> PoissonConfigs] :
                                      /\ Size(c[0].weights) = 1
                                      /\ target.population
                                            => \A k \in DOMAIN c : c[k] = c[0]}} :
                  target \in KnownTargets(n)} :
           n \in 1..MaxSources}

\* dict[key] = value
SetItem(dict, key, value) ==
    [k \in DOMAIN dict \cup {key} |-> IF k = key THEN value ELSE dict[k]]

\* A PoissonPoolSourceConfiguration: N sources of which num_exc are
\* excitatory (N * gamma, rounded), the indegrees of a sampler
\* (num_exc * epsilon_external and num_inh * epsilon_external, rounded).
PoolConfigs ==
    {[N |-> 2, num_exc |-> num_exc, num_inh |-> 2 - num_exc,
      indegree_external_exc |-> num_exc, indegree_external_inh |-> 2 - num_exc,
      rate |-> rate, JE |-> 1, JI |-> 1, delay_external |-> 1,
      nest_source_model |-> model.name,
      nest_source_model_kwargs |-> model.kwargs] :
         num_exc \in 1..2, rate \in 1..2,
         model \in {[name |-> "poisson_generator", kwargs |-> <<>>],
                    [name |-> "lookahead_poisson_generator",
                     kwargs |-> [steps_lookahead |-> 10000]]}}

\* The samplers argument of create_connect of a noise configuration: None, a
\* population, or a list of samplers, each with the configuration self or
\* with another one.
NoiseTargets ==
    {[kind |-> "None"]}
    \cup {[kind |-> "Population", target |-> target] :
             target \in {t \in KnownTargets(2) : t.population}}
    \cup {[kind |-> "list", target |-> target, source_config |-> source_config] :
             target \in UNION {{t \in KnownTargets(n) : ~t.population} :
                                 n \in 1..2},
             source_config \in {f \in UNION {[0..(n - 1) -> {"self", "other"}]
                                                : n \in 1..2} : f[0] = "self"}}

PoolCalls ==
    {c \in [fn : {"PoissonPoolSourceConfiguration.create_connect"},
            self : PoolConfigs, other : PoolConfigs, samplers : NoiseTargets] :
        /\ c.samplers.kind = "list"
              => DOMAIN c.samplers.source_config
                    = DOMAIN c.samplers.target.samplers
        /\ (c.samplers.kind # "list"
            \/ \A k \in DOMAIN c.samplers.source_config :
                  c.samplers.source_config[k] = "self")
              => c.other = c.self
        /\ c.other.rate = c.self.rate}

sampler_cfgs_of_nothing(samplers) == EmptyArray

\* sampler_cfgs: the samplers argument with self, or the runs of samplers of
\* one configuration with their configuration
sampler_cfgs_of(samplers) ==
    IF samplers.kind # "list"
    THEN Append0(EmptyArray, [samplers |-> samplers.kind, cfg |-> "self"])
    ELSE LET runs == groupby(samplers.source_config)
         IN  [r \in DOMAIN runs |->
                 [samplers |-> runs[r],
                  cfg |-> samplers.source_config[runs[r][0]]]]

\* the samplers of one run as get_population_from_samplers gets them; the
\* cell of a sampler on its own is numbered by its position in the run
TargetOf(samplers, run) ==
    IF samplers.kind = "Population" THEN samplers.target
    ELSE [population |-> FALSE, n |-> Size(run),
          samplers |-> Take(samplers.target.samplers, run),
          pop_len |-> samplers.target.pop_len]

\* PoissonPoolSourceConfiguration.create_connect up to the loop
Pool_create_connect ==
    /\ pc = "Pool.create_connect"
    /\ IF ~sim.has_nest
       THEN /\ Raise("AssertionError")
            /\ frame' = frame
       ELSE /\ frame' = [fn |-> "Pool.create_connect",
                         sampler_cfgs |-> sampler_cfgs_of(call.samplers),
                         i |-> 0,
                         sources |-> EmptyArray,
                         projections |-> EmptyArray,
                         calls |-> <<>>]
            /\ pc' = "Pool.for"
            /\ raised' = raised
    /\ UNCHANGED <<attributes, earlier, sim, call, g, results, backend>>

\* gid_parrots[:num_exc] and gid_parrots[-num_inh:]; the slice [-0:] is the
\* whole tuple
slice_exc(gid_parrots, cfg) == [k \in 0..(cfg.num_exc - 1) |-> gid_parrots[k]]

slice_inh(gid_parrots, cfg) ==
    IF cfg.num_inh = 0 THEN gid_parrots
    ELSE [k \in 0..(cfg.num_inh - 1) |->
             gid_parrots[Size(gid_parrots) - cfg.num_inh + k]]

\* model_name: self.nest_source_model if nest has it, else
\* fallback_nest_source_model
pool_model_name_no_fallback(self, models) == self.nest_source_model

pool_model_name(self, models) ==
    IF self.nest_source_model \in models THEN self.nest_source_model
    ELSE "poisson_generator"

\* Is what get_population_from_samplers returned a PopulationView: the view
\* of samplers of one population that has more cells; the population of a
\* single sampler may be either.
IsView(target, pops) ==
    IF target.population THEN {FALSE}
    ELSE IF Size(target.samplers) = 1 THEN BOOLEAN
    ELSE {pops.single
          /\ Size(pops.pops[0])
                # target.pop_len[target.samplers[0].population]}

\* PoissonPoolSourceConfiguration.create_connect: one turn of the loop over
\* sampler_cfgs, the return after the last.  The generator model is the one of
\* self if nest has it, the fallback otherwise; the rate is written into the
\* dict of keyword arguments of that model.
Pool_for ==
    /\ pc = "Pool.for"
    /\ IF frame.i >= Size(frame.sampler_cfgs)
       THEN /\ pc' = "return"
            /\ UNCHANGED <<frame, backend, raised, attributes>>
       ELSE \E models \in ModelsRead :
         LET self == call.self
             samplers == frame.sampler_cfgs[frame.i].samplers
             cfg == call[frame.sampler_cfgs[frame.i].cfg]
             preferred == self.nest_source_model \in models
             model_name == pool_model_name(self, models)
             model_kwargs ==
                 SetItem(IF preferred THEN attributes.nest_source_model_kwargs
                         ELSE attributes.fallback_nest_source_model_kwargs,
                         "rate", self.rate)
             gid_generator == GidsAfter(backend.nodes, 1)
             gid_parrots == GidsAfter(backend.nodes + 1, self.N)
             gid_exc == slice_exc(gid_parrots, cfg)
             gid_inh == slice_inh(gid_parrots, cfg)
             created ==
                 <<[op |-> "Create", model |-> model_name,
                    gids |-> gid_generator, params |-> model_kwargs],
                   [op |-> "Create", model |-> "parrot_neuron",
                    gids |-> gid_parrots],
                   [op |-> "Connect", rule |-> "all_to_all",
                    pre |-> gid_generator, post |-> gid_parrots]>>
             sources == Append0(frame.sources, [generator |-> gid_generator,
                                                parrots |-> gid_parrots])
             target == TargetOf(call.samplers, samplers)
             pops == get_population_from_samplers(target, target.pop_len)
             connects(pop) ==
                 <<[op |-> "Connect", rule |-> "fixed_indegree",
                    indegree |-> self.indegree_external_exc,
                    pre |-> gid_exc, post |-> pop,
                    weight |-> weight_pynn_to_nest(
                                   Append0(EmptyArray, self.JE))[0]],
                   [op |-> "Connect", rule |-> "fixed_indegree",
                    indegree |-> self.indegree_external_inh,
                    pre |-> gid_inh, post |-> pop,
                    weight |-> weight_pynn_to_nest(
                                   Append0(EmptyArray, -self.JI))[0]]>>
             all_connects[k \in 0..Size(pops.pops)] ==
                 IF k = 0 THEN <<>>
                 ELSE all_connects[k - 1] \o connects(pops.pops[k - 1])
             made == Sum([k \in DOMAIN pops.pops |->
                            Size(pops.pops[k])
                            * (self.indegree_external_exc
                               + self.indegree_external_inh)])
         IN  /\ attributes' =
                   IF preferred
                   THEN [attributes EXCEPT
                            !.nest_source_model_kwargs = model_kwargs]
                   ELSE [attributes EXCEPT
                            !.fallback_nest_source_model_kwargs = model_kwargs]
             /\ IF call.samplers.kind = "None"
                THEN /\ frame' = [frame EXCEPT !.i = @ + 1,
                                               !.sources = sources,
                                               !.calls = @ \o created]
                     /\ backend' = [nodes |-> backend.nodes + 1 + self.N,
                                    connections |-> backend.connections + self.N]
                     /\ pc' = pc /\ raised' = raised
                ELSE \E is_view \in IsView(target, pops) :
                     IF pops.raised # "" \/ is_view
                     THEN /\ frame' = [frame EXCEPT !.sources = sources,
                                                    !.calls = @ \o created]
                          /\ backend' =
                                [nodes |-> backend.nodes + 1 + self.N,
                                 connections |-> backend.connections + self.N]
                          /\ Raise(IF pops.raised # "" THEN pops.raised
                                   ELSE "AttributeError")
                     ELSE /\ frame' =
                                [frame EXCEPT
                                    !.i = @ + 1,
                                    !.sources = sources,
                                    !.projections = Append0(@, <<>>),
                                    !.calls = @ \o created
                                        \o all_connects[Size(pops.pops)]]
                          /\ backend' =
                                [nodes |-> backend.nodes + 1 + self.N,
                                 connections |->
                                     backend.connections + self.N + made]
                          /\ pc' = pc /\ raised' = raised
    /\ UNCHANGED <<earlier, sim, call, g, results>>

\* A NoiseNetworkSourceConfiguration: N neurons of which num_exc are
\* excitatory, epsilon 0 or 0.5 (the indegrees inside the network are half
\* the numbers of neurons, rounded down), epsilon_external 1.
NoiseConfigs ==
    {[N |-> 2, num_exc |-> num_exc, num_inh |-> 2 - num_exc,
      epsilon_positive |-> epsilon_positive,
      indegree_exc |-> IF epsilon_positive THEN num_exc \div 2 ELSE 0,
      indegree_inh |-> IF epsilon_positive THEN (2 - num_exc) \div 2 ELSE 0,
      indegree_external_exc |-> num_exc, indegree_external_inh |-> 2 - num_exc,
      JE |-> 1, JI |-> 1, f_J_external |-> 1, seed |-> 424242] :
         num_exc \in 1..2, epsilon_positive \in BOOLEAN}

NoiseCalls ==
    {c \in [fn : {"NoiseNetworkSourceConfiguration.create_connect"},
            self : NoiseConfigs, other : NoiseConfigs,
            samplers : NoiseTargets] :
        /\ c.samplers.kind = "list"
              => DOMAIN c.samplers.source_config
                    = DOMAIN c.samplers.target.samplers
        /\ (c.samplers.kind # "list"
            \/ \A k \in DOMAIN c.samplers.source_config :
                  c.samplers.source_config[k] = "self")
              => c.other = c.self}

\* NoiseNetworkSourceConfiguration.create_connect up to the loop
Noise_create_connect ==
    /\ pc = "Noise.create_connect"
    /\ frame' = [fn |-> "Noise.create_connect",
                 sampler_cfgs |-> sampler_cfgs_of(call.samplers),
                 i |-> 0,
                 sources |-> EmptyArray,
                 projections |-> EmptyArray,
                 calls |-> <<[op |-> "NumpyRNG", seed |-> call.self.seed]>>]
    /\ pc' = "Noise.for"
    /\ UNCHANGED <<attributes, earlier, sim, call, g, results, backend, raised>>

\* NoiseNetworkSourceConfiguration.create_connect: one turn of the loop over
\* sampler_nn_cfgs, the return after the last.  projections[-1] is the entry
\* appended last, which there is none of while no network had epsilon > 0.
Noise_for ==
    /\ pc = "Noise.for"
    /\ IF frame.i >= Size(frame.sampler_cfgs)
       THEN /\ pc' = "return"
            /\ UNCHANGED <<frame, backend, raised>>
       ELSE
         LET samplers == frame.sampler_cfgs[frame.i].samplers
             cfg == call[frame.sampler_cfgs[frame.i].cfg]
             source == GidsAfter(backend.nodes, cfg.N)
             src_exc == slice_exc(source, cfg)
             src_inh == slice_inh(source, cfg)
             projection(name, pre, post, n, receptor_type) ==
                 [op |-> "Projection", name |-> name, pre |-> pre,
                  post |-> post, n |-> n, receptor_type |-> receptor_type]
             created ==
                 <<[op |-> "Population", n |-> cfg.N, gids |-> source],
                   [op |-> "set", gids |-> source],
                   [op |-> "initialize", gids |-> source]>>
             internal ==
                 IF cfg.epsilon_positive
                 THEN <<projection("EE", src_exc, src_exc, cfg.indegree_exc,
                                   "excitatory"),
                        projection("EI", src_exc, src_inh, cfg.indegree_exc,
                                   "excitatory"),
                        projection("IE", src_inh, src_exc, cfg.indegree_inh,
                                   "inhibitory"),
                        projection("II", src_inh, src_inh, cfg.indegree_inh,
                                   "inhibitory")>>
                 ELSE <<>>
             made_internal ==
                 IF cfg.epsilon_positive
                 THEN (Size(src_exc) + Size(src_inh))
                      * (cfg.indegree_exc + cfg.indegree_inh)
                 ELSE 0
             sources == Append0(frame.sources, source)
             projections == IF cfg.epsilon_positive
                            THEN Append0(frame.projections, {"internal"})
                            ELSE frame.projections
             target == TargetOf(call.samplers, samplers)
             pops == get_population_from_samplers(target, target.pop_len)
             external(pop) ==
                 <<projection("E", src_exc, pop, cfg.indegree_external_exc,
                              "excitatory"),
                   projection("I", src_inh, pop, cfg.indegree_external_inh,
                              "inhibitory")>>
             all_external[k \in 0..Size(pops.pops)] ==
                 IF k = 0 THEN <<>>
                 ELSE all_external[k - 1] \o external(pops.pops[k - 1])
             made_external ==
                 Sum([k \in DOMAIN pops.pops |->
                         Size(pops.pops[k])
                         * (cfg.indegree_external_exc
                            + cfg.indegree_external_inh)])
             after == [nodes |-> backend.nodes + cfg.N,
                       connections |-> backend.connections + made_internal]
         IN  IF call.samplers.kind = "None"
             THEN /\ frame' = [frame EXCEPT !.i = @ + 1,
                                            !.sources = sources,
                                            !.projections = projections,
                                            !.calls = @ \o created \o internal]
                  /\ backend' = after
                  /\ pc' = pc /\ raised' = raised
             ELSE \E is_view \in IsView(target, pops) :
                  IF pops.raised # "" \/ is_view \/ Size(projections) = 0
                  THEN /\ frame' = [frame EXCEPT
                                       !.sources = sources,
                                       !.projections = projections,
                                       !.calls = @ \o created \o internal]
                       /\ backend' = after
                       /\ Raise(IF pops.raised # "" THEN pops.raised
                                ELSE IF Size(projections) = 0
                                THEN "IndexError"
                                ELSE "Exception: cell as a population")
                  ELSE /\ frame' =
                             [frame EXCEPT
                                 !.i = @ + 1,
                                 !.sources = sources,
                                 !.projections =
                                     [projections EXCEPT
                                         ![Size(projections) - 1] =
                                             @ \cup {"external"}],
                                 !.calls = @ \o created \o internal
                                     \o all_external[Size(pops.pops)]]
                       /\ backend' =
                             [after EXCEPT !.connections = @ + made_external]
                       /\ pc' = pc /\ raised' = raised
    /\ UNCHANGED <<attributes, earlier, sim, call, g, results>>

\* ------------------------------------- MultiPoissonVarRateSourceConfiguration
\* the (rate changes, weight) pairs of a virtual source; a rate change is
\* (time, rate)
MultiSourceSpecs ==
    {<<Append0(EmptyArray, <<0, 1>>), 1>>,
     <<Append0(Append0(EmptyArray, <<0, 1>>), <<10, 2>>), -1>>,
     <<Append0(EmptyArray, <<0, 2>>), 0>>}

\* A MultiPoissonVarRateSourceConfiguration: weight_per_source and
\* rate_changes_per_source of equal length, or with one rate change array
\* missing.
MultiConfigs ==
    UNION {{[weight_per_source |-> [i \in DOMAIN src |-> src[i][2]],
             rate_changes_per_source |->
                 [i \in 0..(n - 1 - missing) |-> src[i][1]]] :
               src \in [0..(n - 1) -> MultiSourceSpecs],
               missing \in {m \in 0..1 : m = 1 => n = MaxSources}} :
           n \in 1..MaxSources}

\* uuid.uuid4()
Uuids == {"uuid-a", "uuid-b"}

MultiCalls ==
    UNION {UNION {{[fn |-> "MultiPoissonVarRateSourceConfiguration.create_connect",
                    population |-> target.population, n |-> n,
                    self |-> configs[0], configs |-> configs,
                    target |-> target] :
                      configs \in {c \in [0..(n - 1) -> MultiConfigs] :
                                      /\ Size(c[0].weight_per_source) = 1
                                      /\ target.population
                                            => \A k \in DOMAIN c : c[k] = c[0]}} :
                  target \in KnownTargets(n)} :
           n \in 1..MaxSources}

\* _assert_correct_config, the configurations holding arrays of the right
\* types and shapes: the lengths agree
assert_correct_config(source_config) ==
    Size(source_config.weight_per_source)
        = Size(source_config.rate_changes_per_source)

\* create_connect and create_nest up to the first nest call: the
\* configurations are checked, the weights and rate changes of all samplers
\* collected.
Multi_create_connect ==
    /\ pc = "Multi.create_connect"
    /\ IF ~sim.has_nest
       THEN /\ Raise("NotImplementedError")
            /\ frame' = frame
       ELSE LET source_configs ==
                    IF call.population THEN ArrayOf(call.n, call.self)
                    ELSE call.configs
                checked == IF call.population
                           THEN Append0(EmptyArray, call.self)
                           ELSE call.configs
                all_weights == [s \in DOMAIN source_configs |->
                                   source_configs[s].weight_per_source]
                all_rate_changes ==
                    hstack([s \in DOMAIN source_configs |->
                               source_configs[s].rate_changes_per_source])
                num_virtual_sources_per_sampler ==
                    [s \in DOMAIN all_weights |-> Size(all_weights[s])]
            IN  IF \E s \in DOMAIN checked : ~assert_correct_config(checked[s])
                THEN /\ Raise("AssertionError")
                     /\ frame' = [fn |-> "Multi.create_nest",
                                  source_configs |-> source_configs]
                ELSE /\ frame' =
                           [fn |-> "Multi.create_nest",
                            source_model |-> "multi_poisson_generator",
                            source_configs |-> source_configs,
                            all_weights |-> all_weights,
                            all_rate_changes |-> all_rate_changes,
                            num_virtual_sources_per_sampler |->
                                num_virtual_sources_per_sampler,
                            num_virtual_sources |->
                                Sum(num_virtual_sources_per_sampler),
                            calls |-> <<>>]
                     /\ pc' = "Multi.create"
                     /\ raised' = raised
    /\ UNCHANGED <<attributes, earlier, sim, call, g, results, backend>>

\* create_nest: the parrots, the copy of the generator model under a random
\* name with the rate changes as its defaults, the generator, its connection
\* to every parrot.
Multi_create ==
    /\ pc = "Multi.create"
    /\ \E uuid4 \in Uuids :
         LET gid_parrots == GidsAfter(backend.nodes, frame.num_virtual_sources)
             changes == hstack(frame.all_rate_changes)
             status_dict ==
                 [rates |-> [k \in DOMAIN changes |-> changes[k][2]],
                  times |-> [k \in DOMAIN changes |-> changes[k][1]],
                  targets |->
                      hstack([i \in DOMAIN frame.all_rate_changes |->
                                 ArrayOf(Size(frame.all_rate_changes[i]), i)]),
                  target_gids |-> gid_parrots,
                  use_model |-> TRUE]
             model_name == "mpg-" \o uuid4
             gid_generator ==
                 GidsAfter(backend.nodes + frame.num_virtual_sources, 1)
         IN  /\ frame' =
                   [gid_parrots |-> gid_parrots,
                    gid_generator |-> gid_generator,
                    model_name |-> model_name,
                    calls |->
                       <<[op |-> "Create", model |-> "parrot_neuron",
                          gids |-> gid_parrots],
                         [op |-> "CopyModel", model |-> frame.source_model,
                          new |-> model_name],
                         [op |-> "SetDefaults", model |-> model_name,
                          params |-> status_dict],
                         [op |-> "Create", model |-> model_name,
                          gids |-> gid_generator],
                         [op |-> "Connect", rule |-> "all_to_all",
                          pre |-> gid_generator, post |-> gid_parrots]>>]
                   @@ frame
             /\ backend' =
                   [nodes |-> backend.nodes + frame.num_virtual_sources + 1,
                    connections |->
                        backend.connections + frame.num_virtual_sources]
    /\ pc' = "Multi.connect"
    /\ UNCHANGED <<attributes, earlier, sim, call, g, results, raised>>

\* create_nest: the populations of the samplers are looked up, every parrot
\* is connected to its sampler with the converted weight of its source.
Multi_connect ==
    /\ pc = "Multi.connect"
    /\ LET target == call.target
           list_pop == get_population_from_samplers(target, target.pop_len)
           gid_samplers == hstack(list_pop.pops)
           offset_per_sampler == cumsum(frame.num_virtual_sources_per_sampler)
           parrot_to_sampler ==
               [i_parrot \in DOMAIN frame.gid_parrots |->
                   idx_parrot_to_sampler(i_parrot, offset_per_sampler)]
           converted == weight_pynn_to_nest(hstack(frame.all_weights))
           conns == [i \in DOMAIN frame.gid_parrots |->
                        <<frame.gid_parrots[i],
                          gid_samplers[parrot_to_sampler[i]], converted[i]>>]
       IN  IF list_pop.raised # ""
           THEN /\ Raise(list_pop.raised)
                /\ frame' = frame
                /\ backend' = backend
           ELSE IF \E i \in DOMAIN parrot_to_sampler :
                      parrot_to_sampler[i] \notin DOMAIN gid_samplers
           THEN /\ Raise("IndexError")
                /\ frame' = frame
                /\ backend' = backend
           ELSE /\ pc' = "return"
                /\ raised' = raised
                /\ frame' =
                      [cells |-> TargetCells(target),
                       gid_samplers |-> gid_samplers,
                       offset_per_sampler |-> offset_per_sampler,
                       parrot_to_sampler |-> conns,
                       calls |-> Append(frame.calls,
                                   [op |-> "Connect", rule |-> "one_to_one",
                                    conns |-> conns])] @@ frame
                /\ backend' = [backend EXCEPT
                                  !.connections = @ + Size(conns)]
    /\ UNCHANGED <<attributes, earlier, sim, call, g, results>>

\* where a call starts
StartOf(a_call) ==
    IF a_call.fn = "create_connect" THEN "create_connect"
    ELSE IF a_call.fn = "PoissonPoolSourceConfiguration.create_connect"
    THEN "Pool.create_connect"
    ELSE IF a_call.fn = "NoiseNetworkSourceConfiguration.create_connect"
    THEN "Noise.create_connect"
    ELSE "Multi.create_connect"

\* The same create_connect once more, after nest.ResetKernel(): the calls it
\* made are kept for comparison.
Compile_again ==
    /\ pc = "return"
    /\ earlier = <<>>
    /\ earlier' = frame.calls
    /\ frame' = NoFrame
    /\ backend' = [nodes |-> 0, connections |-> 0]
    /\ pc' = StartOf(call)
    /\ UNCHANGED <<attributes, sim, call, g, results, raised>>

InitVariants ==
    /\ call \in PoissonCalls \cup PoolCalls \cup NoiseCalls \cup MultiCalls
    /\ sim \in [has_nest : BOOLEAN, models : ModelLists]
    /\ call.fn = "create_connect" => sim.has_nest
    /\ pc = StartOf(call)
    /\ g = 0
    /\ results = EmptyArray
    /\ frame = NoFrame
    /\ backend = [nodes |-> 0, connections |-> 0]
    /\ raised = ""
    /\ attributes =
          IF call.fn = "PoissonPoolSourceConfiguration.create_connect"
          THEN [nest_source_model_kwargs |->
                    call.self.nest_source_model_kwargs] @@ ClassAttributes
          ELSE ClassAttributes
    /\ earlier = <<>>

NextVariants ==
    \/ Poisson_create_nest_optimized
    \/ Poisson_create
    \/ Nest_connect
    \/ Pool_create_connect
    \/ Pool_for
    \/ Noise_create_connect
    \/ Noise_for
    \/ Multi_create_connect
    \/ Multi_create
    \/ Multi_connect
    \/ Compile_again

SpecVariants == InitVariants /\ [][NextVariants]_vars

\* ------------------------------- the excitatory and inhibitory units on their own
MaxPoolSize == 4

MaxFirstGid == 3

\* The N units of a noise network or a Poisson pool, created after first
\* other nodes, of which num_exc are excitatory.
InitSlices ==
    /\ sim = [has_nest |-> TRUE]
    /\ \E N \in 1..MaxPoolSize :
         \E num_exc \in 0..N, first \in 0..MaxFirstGid,
            fn \in {"NoiseNetworkSourceConfiguration.create_connect",
                    "PoissonPoolSourceConfiguration.create_connect"} :
            call = [fn |-> fn, first |-> first,
                    self |-> [N |-> N, num_exc |-> num_exc,
                              num_inh |-> N - num_exc]]
    /\ pc = "given"
    /\ g = 0
    /\ results = EmptyArray
    /\ frame = NoFrame
    /\ backend = [nodes |-> 0, connections |-> 0]
    /\ raised = ""
    /\ attributes = ClassAttributes
    /\ earlier = <<>>

\* src_exc = source[:cfg.num_exc]; src_inh = source[-cfg.num_inh:]
Noise_slices ==
    /\ pc = "given"
    /\ call.fn = "NoiseNetworkSourceConfiguration.create_connect"
    /\ LET source == GidsAfter(call.first, call.self.N)
       IN  frame' = [fn |-> "Noise.create_connect", units |-> source,
                     exc |-> slice_exc(source, call.self),
                     inh |-> slice_inh(source, call.self)]
    /\ pc' = "sliced"
    /\ UNCHANGED <<attributes, earlier, sim, call, g, results, backend, raised>>

\* gid_exc = gid_parrots[:cfg.num_exc]; gid_inh = gid_parrots[-cfg.num_inh:]
Pool_slices ==
    /\ pc = "given"
    /\ call.fn = "PoissonPoolSourceConfiguration.create_connect"
    /\ LET gid_parrots == GidsAfter(call.first + 1, call.self.N)
       IN  frame' = [fn |-> "Pool.create_connect", units |-> gid_parrots,
                     exc |-> slice_exc(gid_parrots, call.self),
                     inh |-> slice_inh(gid_parrots, call.self)]
    /\ pc' = "sliced"
    /\ UNCHANGED <<attributes, earlier, sim, call, g, results, backend, raised>>

NextSlices == Noise_slices \/ Pool_slices

SpecSlices == InitSlices /\ [][NextSlices]_vars

\* ------------------------------------------------------------------- claims
\* A scan over the numbers of sources: the target whose sources hold slot i
\* when the sources of target j start at slot 0.
RECURSIVE ScanOwner(_, _, _)
ScanOwner(counts, j, i) ==
    IF i < counts[j] THEN j ELSE ScanOwner(counts, j + 1, i - counts[j])

\* C2: for every flat slot idx_parrot_to_sampler returns the target that owns
\* the slot: the result of a cumulative scan over the numbers of sources, the
\* one j with offsets[j-1] <= idx < offsets[j]; offsets[j] is the sum of the
\* first j+1 numbers, and counts [2, 1, 3] give offsets [2, 3, 6] and target 2
\* for slot 4.
C2_OffsetIndex ==
    pc = "looked up" =>
        LET counts == frame.num_sources_per_sampler
            offsets == frame.offset_per_sampler
            before(j) == IF j = 0 THEN 0 ELSE offsets[j - 1]
        IN  /\ frame.sampler = ScanOwner(counts, 0, frame.idx)
            /\ \A j \in DOMAIN counts :
                  (before(j) <= frame.idx /\ frame.idx < offsets[j])
                      <=> j = frame.sampler
            /\ \A j \in DOMAIN counts :
                  offsets[j] = Sum([t \in 0..j |-> counts[t]])
            /\ (counts = (0 :> 2 @@ 1 :> 1 @@ 2 :> 3))
                  => /\ offsets = (0 :> 2 @@ 1 :> 3 @@ 2 :> 6)
                     /\ (frame.idx = 4 => frame.sampler = 2)

C2_Witness ==
    /\ pc = "looked up"
    /\ frame.num_sources_per_sampler = (0 :> 2 @@ 1 :> 1 @@ 2 :> 3)
    /\ frame.idx = 4
    /\ frame.sampler = 2

\* A create_nest_optimized or create_nest that has run to its end.
NestCompiled ==
    /\ pc = "return"
    /\ frame.fn \in {"create_nest_optimized", "create_nest"}

SourceTuples ==
    IF frame.fn = "create_nest_optimized" THEN frame.rates ELSE frame.params

UniqueTuples ==
    IF frame.fn = "create_nest_optimized" THEN frame.uniq_rates
    ELSE [k \in DOMAIN frame.unique_source_configurations |->
             frame.unique_source_configurations[k].parameters]

\* nest.SetStatus has given the generator gid the parameters tuple
GeneratorGot(gid, tuple) ==
    IF frame.fn = "create_nest_optimized"
    THEN \E k \in DOMAIN frame.calls[3].gids :
            /\ frame.calls[3].gids[k] = gid
            /\ frame.calls[3].params[k].rate = tuple
    ELSE \E c \in DOMAIN frame.calls :
            /\ frame.calls[c].op = "SetStatus"
            /\ frame.calls[c].gids[0] = gid
            /\ frame.calls[c].params = tuple

RunStarts ==
    Ascending({i \in DOMAIN call.classes :
                  i = 0 \/ call.classes[i] # call.classes[i - 1]})

RunEnd(r) ==
    IF r + 1 < Size(RunStarts) THEN RunStarts[r + 1] - 1 ELSE call.n - 1

\* C7: sources_create_connect groups the samplers into the maximal runs of
\* consecutive samplers of one configuration class, in order: the r-th
\* create_connect gets exactly the samplers of the r-th run, samplers of one
\* class that a sampler of another class separates are in different groups,
\* and a call that returns has one result per run.
C7_Grouping ==
    call.fn = "sources_create_connect" =>
        /\ Size(results) <= Size(RunStarts)
        /\ \A r \in DOMAIN results :
              /\ results[r].samplers
                    = [k \in 0..(RunEnd(r) - RunStarts[r]) |-> RunStarts[r] + k]
              /\ results[r].cls = call.classes[RunStarts[r]]
        /\ pc = "returned" => Size(results) = Size(RunStarts)

C7_Witness ==
    /\ pc = "returned"
    /\ call.fn = "sources_create_connect"
    /\ call.classes = (0 :> "PoissonSourceConfiguration"
                       @@ 1 :> "FixedSpikeTrainConfiguration"
                       @@ 2 :> "PoissonSourceConfiguration")
    /\ Size(results) = 3
    /\ results[0].samplers # results[2].samplers

\* C8: the compile creates one generator per distinct parameter tuple among
\* the sources: never more generators than (parrot, sampler) pairs, and as
\* many exactly when no two sources have the same tuple.
C8_GeneratorCount ==
    NestCompiled =>
        LET distinct == Cardinality(Values(SourceTuples))
        IN  /\ Size(frame.gid_generators) = distinct
            /\ Size(frame.gid_generators) <= Size(frame.parrot_to_sampler)
            /\ (Size(frame.gid_generators) = Size(frame.parrot_to_sampler))
                  <=> (\A i, j \in DOMAIN SourceTuples :
                          SourceTuples[i] = SourceTuples[j] => i = j)

C8_Witness ==
    /\ NestCompiled
    /\ frame.fn = "create_nest_optimized"
    /\ frame.rates = (0 :> 1 @@ 1 :> 1)
    /\ frame.weights = (0 :> 1 @@ 1 :> -1)
    /\ Size(frame.gid_generators) = 1
    /\ Size(frame.gid_parrots) = 2

\* The connections connect_sources_regular would hand to the projection of
\* connection type ct and entry j of the populations if it took every weight
\* > 0 for excitatory and every other weight for inhibitory.
SignRuleConnList(ct, j) ==
    LET trans(w) == IF frame.conductance_based THEN Abs(w) ELSE w
        cl == Select(frame.conn_list,
                     {c \in Values(frame.conn_list) :
                         /\ (ct = "exc") <=> (c[3] > 0)
                         /\ frame.population.single \/ c[2] = j})
    IN  [k \in DOMAIN cl |->
            <<cl[k][1], IF frame.population.single THEN cl[k][2] ELSE 0,
              trans(cl[k][3])>>]

\* C4: wherever sources are classified a weight > 0 is excitatory and a
\* weight <= 0 is inhibitory, a weight of zero inhibitory always: in the
\* projections connect_one_to_one makes, in get_distribution_parameters and in
\* the projections connect_sources_regular makes.
C4_SignRule ==
    /\ (pc = "return" /\ frame.fn = "create_regular") =>
          \A rectype \in DOMAIN frame.projections :
             \A j \in DOMAIN frame.projections[rectype] :
                LET cl == frame.projections[rectype][j].conn_list
                IN  \A k \in DOMAIN cl :
                       (rectype = "excitatory")
                           <=> (frame.weights[j][cl[k][1]] > 0)
    /\ frame.fn \in {"create_regular", "create_nest_optimized"} =>
          LET parameters == get_distribution_parameters(frame.self)
          IN  /\ \A i \in DOMAIN parameters.weights_exc :
                    parameters.weights_exc[i] > 0
              /\ \A i \in DOMAIN parameters.weights_inh :
                    parameters.weights_inh[i] <= 0
    /\ (pc = "return" /\ frame.fn = "create_connect_regular") =>
          \A ct \in DOMAIN frame.projections :
             \A j \in DOMAIN frame.projections[ct] :
                frame.projections[ct][j].conn_list = SignRuleConnList(ct, j)

OneSign(weights) ==
    \/ \A i \in DOMAIN weights : weights[i] > 0
    \/ \A i \in DOMAIN weights : weights[i] < 0

MixedSigns(weights) ==
    /\ \E i \in DOMAIN weights : weights[i] > 0
    /\ \E i \in DOMAIN weights : weights[i] < 0

ValidationErrors ==
    {"ValueError: all excitatory", "ValueError: all inhibitory",
     "ValueError: individual_spike_trains"}

\* C5: create_nest_optimized and create_nest for a population raise when the
\* weights of the configuration are all positive or all negative, and do not
\* raise when the weights have both signs.
C5_DegeneracyGuard ==
    (call.population /\ frame.fn \in {"create_nest_optimized", "create_nest"})
        => /\ OneSign(frame.weights)
                 => pc = "raised" /\ raised \in ValidationErrors
           /\ MixedSigns(frame.weights) => pc # "raised"

\* C6: when sources_create_connect or create_connect ends in an error of
\* validation, no node has been created and no connection made: the
\* validation of every group is over before the simulator is touched.
C6_ValidationFirst ==
    (pc = "raised" /\ raised \in ValidationErrors)
        => backend = [nodes |-> 0, connections |-> 0]

\* C9: with individual_spike_trains false, create_nest, once it has created
\* the generators, goes on to create one parrot of the shared layer per unique
\* tuple and one parrot per source: three samplers with one source each of the
\* same parameters get one generator, one shared parrot and three parrots.
C9_SharedLayer ==
    (frame.fn = "create_nest" /\ ~frame.individual_spike_trains
     /\ "hidden_gid_generators" \in DOMAIN frame) =>
        /\ pc # "raised"
        /\ "gid_parrots" \in DOMAIN frame
        /\ LET distinct == Cardinality(Values(frame.params))
           IN  /\ Size(frame.hidden_gid_generators) = distinct
               /\ Size(frame.gid_generators) = distinct
               /\ Size(frame.gid_parrots) = Size(frame.params)
               /\ (Size(frame.params) = 3 /\ distinct = 1)
                     => /\ Size(frame.hidden_gid_generators) = 1
                        /\ Size(frame.gid_generators) = 1
                        /\ Size(frame.gid_parrots) = 3

\* the number of connections in the projections of all connection types
NumProjected ==
    Sum([t \in 0..1 |->
            LET ct == IF frame.fn = "create_regular"
                      THEN <<"inhibitory", "excitatory">>[t + 1]
                      ELSE <<"inh", "exc">>[t + 1]
                made == Ascending(DOMAIN frame.projections[ct])
            IN  Sum([j \in DOMAIN made |->
                        Size(frame.projections[ct][made[j]].conn_list)])])

\* C10: connect_one_to_one and connect_sources_regular, for one population
\* and for a list of populations, put every source of every sampler into
\* exactly one of the excitatory and the inhibitory connections: the two
\* together have as many connections as the samplers have sources.
C10_Partition ==
    /\ (pc = "return" /\ frame.fn = "create_regular") =>
          /\ NumProjected
                = Sum([j \in DOMAIN frame.weights |-> Size(frame.weights[j])])
          /\ \A j \in DOMAIN frame.weights : \A i \in DOMAIN frame.weights[j] :
                Cardinality({rectype \in DOMAIN frame.projections :
                    \E k \in DOMAIN frame.projections[rectype][j].conn_list :
                       frame.projections[rectype][j].conn_list[k][1] = i}) = 1
    /\ (pc = "return" /\ frame.fn = "create_connect_regular") =>
          NumProjected = Size(frame.conn_list)

\* C11: in every compile of create_nest_optimized or create_nest that
\* finishes, every parrot has exactly one incoming connection, from one
\* generator, and exactly one outgoing connection, to the sampler that owns
\* the flat slot of the parrot: parrot i goes to the sampler a scan over the
\* numbers of sources finds for slot i.
C11_RelayWiring ==
    NestCompiled =>
        \A i \in DOMAIN frame.gid_parrots :
           /\ Cardinality({k \in DOMAIN frame.generator_to_parrot :
                             frame.generator_to_parrot[k][2]
                                 = frame.gid_parrots[i]}) = 1
           /\ frame.generator_to_parrot[i][1] \in Values(frame.gid_generators)
           /\ Cardinality({k \in DOMAIN frame.parrot_to_sampler :
                             frame.parrot_to_sampler[k][1]
                                 = frame.gid_parrots[i]}) = 1
           /\ frame.parrot_to_sampler[i][2]
                 = frame.cells[ScanOwner(frame.num_sources_per_sampler, 0, i)]

\* C16: a compile of create_nest_optimized or create_nest for a population
\* that finishes has connected at least one parrot with a weight > 0 and at
\* least one with a weight <= 0; a compile whose weights are all > 0 or all
\* <= 0 is refused.
C16_BothReceptors ==
    /\ (call.population /\ NestCompiled) =>
          /\ \E i \in DOMAIN frame.parrot_to_sampler :
                frame.parrot_to_sampler[i][3] > 0
          /\ \E i \in DOMAIN frame.parrot_to_sampler :
                frame.parrot_to_sampler[i][3] <= 0
    /\ (call.population
        /\ frame.fn \in {"create_nest_optimized", "create_nest"}
        /\ (\/ \A i \in DOMAIN frame.weights : frame.weights[i] > 0
            \/ \A i \in DOMAIN frame.weights : frame.weights[i] <= 0))
          => pc = "raised" /\ raised \in ValidationErrors

\* C20: what get_population_from_samplers returns holds the cells of the
\* samplers, each once, in the order of the samplers: the one population or
\* view for a population, one sampler or samplers of one population, and a
\* list with one population or view per run of samplers of one population
\* otherwise.
C20_PopulationOfSamplers ==
    /\ "population" \in DOMAIN frame =>
          /\ hstack(frame.population.pops) = frame.cells
          /\ frame.population.single
                <=> \/ call.population
                    \/ NumSamplers = 1
                    \/ \A k \in DOMAIN frame.cells :
                          frame.cells[k][1] = frame.cells[0][1]
          /\ ~frame.population.single =>
                Size(frame.population.pops)
                    = Size(groupby([k \in DOMAIN frame.cells |->
                                       frame.cells[k][1]]))
    /\ "gid_samplers" \in DOMAIN frame => frame.gid_samplers = frame.cells

\* the parameter arrays _verify_parameters of the class looks at
VerifiedParams ==
    IF call.cls = "PoissonSourceConfiguration" THEN {"rates"}
    ELSE {SinusParamNames[k] : k \in 1..Len(SinusParamNames)}

\* C12: constructing a PoissonSourceConfiguration or a
\* SinusPoissonSourceConfiguration raises exactly when a parameter array has
\* neither one entry nor as many as weights; otherwise every parameter array
\* has weights.size entries afterwards, an array of one entry repeated and
\* every other array as given.
C12_ShapesAtConstruction ==
    pc \in {"constructed", "raised"} =>
        LET given == call.kwargs
            n == ndsize(given.weights)
        IN  /\ pc = "raised"
                  <=> \E name \in VerifiedParams :
                         ndsize(given[name]) \notin {1, n}
            /\ pc = "raised" => raised \in {"ValueError: " \o name :
                                               name \in VerifiedParams}
            /\ pc = "constructed" =>
                  \A name \in VerifiedParams :
                     /\ ndsize(frame.self[name]) = n
                     /\ ndsize(given[name]) = 1
                           => \A i \in DOMAIN frame.self[name].flat :
                                 frame.self[name].flat[i] = given[name].flat[0]
                     /\ ndsize(given[name]) # 1
                           => frame.self[name] = given[name]

C12_Witness ==
    /\ pc = "constructed"
    /\ call.cls = "SinusPoissonSourceConfiguration"
    /\ ndsize(call.kwargs.weights) = 3
    /\ call.kwargs.rates = NdArray(<<>>, 2)
    /\ ndsize(call.kwargs.amplitudes) = 3
    /\ ndsize(frame.self.rates) = 3
    /\ frame.self.rates.flat[2] = 2

\* the attributes of the configuration and of its class when the call starts
AttributesAtCall ==
    IF call.fn = "PoissonPoolSourceConfiguration.create_connect"
    THEN [nest_source_model_kwargs |-> call.self.nest_source_model_kwargs]
         @@ ClassAttributes
    ELSE ClassAttributes

\* C13: a compile leaves every attribute of the configuration and every
\* class-level attribute as it was when the call started.
C13_NoStateAcrossCalls == attributes = AttributesAtCall

\* C18: the generators are created with the preferred model when the backend
\* reports it and with the fallback model and its parameters otherwise; the
\* pool's generator gets the parameters of the model used and the rate.
C18_ModelFallback ==
    /\ (frame.fn = "create_nest_optimized" /\ frame.calls # <<>>)
          => /\ frame.calls[1].op = "Create"
             /\ frame.calls[1].model
                   = IF "lookahead_poisson_generator" \in frame.models
                     THEN "lookahead_poisson_generator"
                     ELSE "poisson_generator"
             /\ (/\ Len(frame.calls) >= 4
                 /\ frame.calls[4].op = "SetStatus"
                 /\ frame.calls[4].params = {"steps_lookahead"})
                   <=> "lookahead_poisson_generator" \in frame.models
    /\ (frame.fn = "Pool.create_connect" /\ frame.calls # <<>>)
          => /\ frame.calls[1].op = "Create"
             /\ frame.calls[1].model
                   = IF call.self.nest_source_model \in sim.models
                     THEN call.self.nest_source_model
                     ELSE "poisson_generator"
             /\ frame.calls[1].params
                   = IF call.self.nest_source_model \in sim.models
                     THEN SetItem(call.self.nest_source_model_kwargs,
                                  "rate", call.self.rate)
                     ELSE [rate |-> call.self.rate]

C18_Witness ==
    /\ pc = "return"
    /\ frame.fn = "Pool.create_connect"
    /\ call.self.nest_source_model = "lookahead_poisson_generator"
    /\ "lookahead_poisson_generator" \notin sim.models
    /\ frame.calls[1].model = "poisson_generator"
    /\ frame.calls[1].params = [rate |-> call.self.rate]

\* a create_connect of a noise network or a Poisson pool with samplers = None,
\* the pool on a simulator that has nest
NetworkOnlyCall ==
    /\ call.fn \in {"NoiseNetworkSourceConfiguration.create_connect",
                    "PoissonPoolSourceConfiguration.create_connect"}
    /\ call.samplers.kind = "None"
    /\ call.fn = "PoissonPoolSourceConfiguration.create_connect"
          => sim.has_nest

\* C19: create_connect of a noise network or of a Poisson pool with
\* samplers = None raises nothing, connects nothing but the nodes it created,
\* and returns the one network or pool it created with nothing projected to
\* a target.
C19_NetworkOnly ==
    NetworkOnlyCall =>
        /\ raised = ""
        /\ "calls" \in DOMAIN frame
              => \A k \in DOMAIN frame.calls :
                    frame.calls[k].op \in {"Connect", "Projection"}
                       => /\ Values(frame.calls[k].pre) \subseteq 1..backend.nodes
                          /\ Values(frame.calls[k].post)
                                \subseteq 1..backend.nodes
        /\ pc = "return"
              => /\ Size(frame.sources) = 1
                 /\ backend.nodes
                       = IF frame.fn = "Pool.create_connect"
                         THEN 1 + call.self.N ELSE call.self.N
                 /\ frame.fn = "Pool.create_connect"
                       => /\ frame.projections = EmptyArray
                          /\ backend.connections = call.self.N
                          /\ Len(frame.calls) = 3
                 /\ frame.fn = "Noise.create_connect"
                       => /\ \A k \in DOMAIN frame.projections :
                                frame.projections[k] = {"internal"}
                          /\ Size(frame.projections)
                                = IF call.self.epsilon_positive THEN 1 ELSE 0
                          /\ Len(frame.calls)
                                = IF call.self.epsilon_positive THEN 8 ELSE 4

C19_Witness ==
    /\ NetworkOnlyCall
    /\ pc = "return"
    /\ frame.fn = "Noise.create_connect"
    /\ call.self.epsilon_positive
    /\ Len(frame.calls) = 8
    /\ backend.nodes = 2

\* the weights of a source configuration
WeightsOf(source_config) ==
    IF "weights" \in DOMAIN source_config THEN source_config.weights
    ELSE source_config.weight_per_source

\* a create_nest_optimized or a create_nest of the multi generator that has
\* run to its end
FlatCompiled ==
    /\ pc = "return"
    /\ frame.fn \in {"create_nest_optimized", "Multi.create_nest"}

\* C14: in a compile through create_nest_optimized or through create_nest of
\* the multi generator that finishes, connection i from the parrots to the
\* samplers carries the weight of flat slot i converted once: with slot i the
\* j-th source of sampler s, 1000 times the j-th weight of the configuration
\* of s.
C14_FlatWeights ==
    FlatCompiled =>
        LET counts == [s \in DOMAIN frame.source_configs |->
                          Size(WeightsOf(frame.source_configs[s]))]
        IN  /\ Size(frame.parrot_to_sampler) = Sum(counts)
            /\ \A i \in DOMAIN frame.parrot_to_sampler :
                  LET s == ScanOwner(counts, 0, i)
                      j == i - (IF s = 0 THEN 0 ELSE SumUpTo(counts, s - 1))
                  IN  /\ frame.parrot_to_sampler[i][1] = frame.gid_parrots[i]
                      /\ frame.parrot_to_sampler[i][3]
                            = 1000 * WeightsOf(frame.source_configs[s])[j]

C14_Witness ==
    /\ FlatCompiled
    /\ frame.fn = "Multi.create_nest"
    /\ Size(frame.source_configs) = 2
    /\ WeightsOf(frame.source_configs[0])[0] = -1
    /\ Size(WeightsOf(frame.source_configs[1])) = 2
    /\ frame.parrot_to_sampler[0][3] = -1000
    /\ frame.parrot_to_sampler[1][3] = 1000
    /\ frame.parrot_to_sampler[2][3] = 0

\* C17: a compile repeated on the same inputs and a fresh backend makes the
\* same sequence of backend calls as the first one, with the same arguments,
\* the model names included.
C17_Deterministic ==
    (earlier # <<>> /\ pc = "return") => frame.calls = earlier

\* the generators a deduplication ends with
Deduplicated(result) ==
    IF frame.fn = "np.unique" THEN result.uniq ELSE result.all_spike_times

\* C15: the sources of a compile in any other order give as many generators:
\* np.unique of the permuted rates and get_index over the permuted spike
\* trains end with as many entries as for the order given, and with the same
\* entries; their order may differ.
C15_PermutationInvariant ==
    pc = "deduplicated" =>
        /\ Size(Deduplicated(frame.given)) = Size(Deduplicated(frame.permuted))
        /\ Values(Deduplicated(frame.given))
              = Values(Deduplicated(frame.permuted))

C15_Witness ==
    /\ pc = "deduplicated"
    /\ frame.fn = "get_index"
    /\ Size(call.src) = 3
    /\ Size(frame.given.all_spike_times) = 2
    /\ Size(frame.permuted.all_spike_times) = 2
    /\ frame.given.all_spike_times # frame.permuted.all_spike_times
    /\ call.src[0][1] = call.src[2][1]
    /\ call.src[0][1] # call.src[1][1]

\* the backend calls of the compile in progress that create generators,
\* that create relays, that connect
GeneratorCreations ==
    {k \in DOMAIN frame.calls :
        /\ frame.calls[k].op = "Create"
        /\ frame.calls[k].model # "parrot_neuron"}

RelayCreations ==
    {k \in DOMAIN frame.calls :
        /\ frame.calls[k].op = "Create"
        /\ frame.calls[k].model = "parrot_neuron"}

Connections == {k \in DOMAIN frame.calls : frame.calls[k].op = "Connect"}

\* C21: in a compile through create_nest_optimized or create_nest every
\* generator is created before the first relay and every relay before the
\* first connection.
C21_CreateOrder ==
    ("calls" \in DOMAIN frame
     /\ frame.fn \in {"create_nest_optimized", "create_nest",
                      "Multi.create_nest"})
       => /\ \A k \in GeneratorCreations : \A r \in RelayCreations : k < r
          /\ \A r \in RelayCreations : \A c \in Connections : r < c

\* the samplers of the create_nest in progress have one setting of
\* individual_spike_trains
SettingsAgree ==
    \A s \in DOMAIN frame.source_configs :
        frame.source_configs[s].individual_spike_trains
            = frame.source_configs[0].individual_spike_trains

\* create_nest has created the layer of parrots between the generators and
\* the parrots of the samplers
LayerInserted ==
    /\ "gid_generators" \in DOMAIN frame
    /\ Size(frame.hidden_gid_generators) > 0
    /\ \E k \in DOMAIN frame.calls :
          /\ frame.calls[k].op = "Create"
          /\ frame.calls[k].gids = frame.gid_generators
          /\ frame.calls[k].model # "sinusoidal_poisson_generator"

\* C22: create_nest over a list of samplers that disagree on
\* individual_spike_trains raises before it has made any backend call; over
\* samplers that agree it inserts the shared layer of parrots if and only if
\* the setting is false.
C22_SpikeTrainSetting ==
    (frame.fn = "create_nest" /\ ~call.population) =>
        /\ ~SettingsAgree
              => /\ pc = "raised"
                 /\ raised = "ValueError: individual_spike_trains"
                 /\ frame.calls = <<>>
        /\ (SettingsAgree /\ "hidden_gid_generators" \in DOMAIN frame)
              => (LayerInserted <=> ~frame.individual_spike_trains)

\* C25: once create_nest is past its creations, the parameter tuple of unique
\* configuration i has been set on the i-th node created with the model
\* sinusoidal_poisson_generator, whatever individual_spike_trains is, and no
\* status has been set on any other node.
C25_ParametersOnGenerators ==
    (frame.fn = "create_nest" /\ "hidden_gid_generators" \in DOMAIN frame) =>
        LET emitting == frame.calls[1].gids
            unique_source_configurations == frame.unique_source_configurations
        IN  /\ frame.calls[1].model = "sinusoidal_poisson_generator"
            /\ \A i \in DOMAIN unique_source_configurations :
                  \E k \in DOMAIN frame.calls :
                     /\ frame.calls[k].op = "SetStatus"
                     /\ frame.calls[k].gids = Append0(EmptyArray, emitting[i])
                     /\ frame.calls[k].params
                           = unique_source_configurations[i].parameters
            /\ \A k \in DOMAIN frame.calls :
                  frame.calls[k].op = "SetStatus"
                     => Values(frame.calls[k].gids) \subseteq Values(emitting)

\* C23: _consolidate_sources returns, with one index per source given, the
\* pair of every source at its index among the consolidated pairs, and no two
\* consolidated pairs with equal weights and equal rate changes.
C23_Consolidated ==
    pc # "given" =>
        /\ pc = "consolidated"
        /\ Size(frame.idx_source_to_consolidated)
              = Size(call.weights_per_source)
        /\ \A i \in DOMAIN call.weights_per_source :
              LET c == frame.idx_source_to_consolidated[i]
              IN  /\ frame.weight_per_consolidated_source[c]
                        = call.weights_per_source[i]
                  /\ frame.rate_changes_per_consolidated_source[c]
                        = call.rate_changes_per_source[i]
        /\ \A c, d \in DOMAIN frame.weight_per_consolidated_source :
              (/\ frame.weight_per_consolidated_source[c]
                     = frame.weight_per_consolidated_source[d]
               /\ frame.rate_changes_per_consolidated_source[c]
                     = frame.rate_changes_per_consolidated_source[d])
                 => c = d

\* C24: at the start of every step of train_rbm_pcd the time of the network
\* is at most 0.95 * NEST_MAX_TIME: a network found past that after the runs
\* of a step has been replaced, before the step goes on, by a new network at
\* time 0 that has the weights_theo of the old one.
C24_RebuildAtLimit ==
    /\ pc = "step" => 20 * frame.bm.time_current <= 19 * NEST_MAX_TIME
    /\ pc = "update" =>
          IF frame.rebuilt
          THEN /\ 20 * frame.killed.time_current > 19 * NEST_MAX_TIME
               /\ frame.bm.time_current = 0
               /\ frame.bm.weights_theo = frame.killed.weights_theo
          ELSE 20 * frame.bm.time_current <= 19 * NEST_MAX_TIME

C24_Witness ==
    /\ pc = "step"
    /\ frame.i_step = 2
    /\ frame.i_step < call.num_steps
    /\ frame.rebuilt
    /\ 20 * frame.killed.time_current > 19 * NEST_MAX_TIME
    /\ frame.killed.time_current < NEST_MAX_TIME
    /\ frame.killed.weights_theo = 1
    /\ frame.bm.time_current = 0

\* C30: the network that replaces a killed one has, before the update of the
\* step is applied, the weights_theo and the biases_theo of the killed one.
C30_RebuildKeepsParameters ==
    (pc = "update" /\ frame.rebuilt) =>
        /\ frame.bm.weights_theo = frame.killed.weights_theo
        /\ frame.bm.biases_theo = frame.killed.biases_theo

\* C26: the excitatory units (the first num_exc) and the inhibitory units
\* (the last num_inh) of a noise network or a Poisson pool have no unit in
\* common, are all N units together, and are num_exc and N - num_exc units,
\* for every num_exc from 0 to N.
C26_ExcInhPartition ==
    pc = "sliced" =>
        /\ Values(frame.exc) \cap Values(frame.inh) = {}
        /\ Values(frame.exc) \cup Values(frame.inh) = Values(frame.units)
        /\ Size(frame.exc) = call.self.num_exc
        /\ Size(frame.inh) = call.self.N - call.self.num_exc

\* C27: create_connect of a noise network over a list of samplers does not
\* fail on a missing entry of projections, and returns one entry of sources
\* and one of projections per group of samplers of one configuration, each
\* entry of projections holding the external projections of its group.
C27_EntryPerGroup ==
    (frame.fn = "Noise.create_connect" /\ call.samplers.kind = "list") =>
        /\ raised # "IndexError"
        /\ pc = "return"
              => /\ Size(frame.sources) = Size(frame.sampler_cfgs)
                 /\ Size(frame.projections) = Size(frame.sampler_cfgs)
                 /\ \A k \in DOMAIN frame.projections :
                       "external" \in frame.projections[k]

\* C28: in create_connect of a Poisson pool over a list of samplers the pool
\* of every group is made from the configuration of the group: the generator
\* has its model (or the fallback) and its rate, there are N parrots of it,
\* and the connections to the samplers have its indegrees and weights, the
\* excitatory ones from the first num_exc parrots.
C28_GroupConfiguration ==
    (frame.fn = "Pool.create_connect" /\ call.samplers.kind = "list") =>
        \A r \in DOMAIN frame.sources :
           LET cfg == call[frame.sampler_cfgs[r].cfg]
               pool == frame.sources[r]
               outgoing == {k \in DOMAIN frame.calls :
                              /\ frame.calls[k].op = "Connect"
                              /\ frame.calls[k].rule = "fixed_indegree"
                              /\ Values(frame.calls[k].pre)
                                    \subseteq Values(pool.parrots)}
           IN  /\ Size(pool.parrots) = cfg.N
               /\ \A k \in DOMAIN frame.calls :
                     (frame.calls[k].op = "Create"
                      /\ frame.calls[k].gids = pool.generator)
                        => /\ frame.calls[k].model
                                 = IF cfg.nest_source_model \in sim.models
                                   THEN cfg.nest_source_model
                                   ELSE "poisson_generator"
                           /\ frame.calls[k].params.rate = cfg.rate
               /\ \A k \in outgoing :
                     IF frame.calls[k].weight > 0
                     THEN /\ frame.calls[k].pre = slice_exc(pool.parrots, cfg)
                          /\ frame.calls[k].indegree
                                = cfg.indegree_external_exc
                          /\ frame.calls[k].weight = 1000 * cfg.JE
                     ELSE /\ frame.calls[k].indegree
                                = cfg.indegree_external_inh
                          /\ frame.calls[k].weight = -1000 * cfg.JI

\* the SetDefaults call of a compile of the multi generator
StatusDict == frame.calls[3].params

\* C29: a create_nest of the multi generator that finishes has created one
\* parrot per virtual source of the samplers, has tagged in targets every
\* row of rate changes with the number of its virtual source, a number below
\* the number of parrots, and has connected parrot k to the sampler that
\* owns virtual source k with the converted weight of that source.
C29_VirtualSources ==
    (pc = "return" /\ frame.fn = "Multi.create_nest") =>
        LET counts == [s \in DOMAIN frame.source_configs |->
                          Size(frame.source_configs[s].weight_per_source)]
            owner(k) == ScanOwner(counts, 0, k)
            local(k) == k - (IF owner(k) = 0 THEN 0
                             ELSE SumUpTo(counts, owner(k) - 1))
            rate_changes(k) ==
                frame.source_configs[owner(k)]
                    .rate_changes_per_source[local(k)]
            RECURSIVE rows_before(_)
            rows_before(k) ==
                IF k = 0 THEN 0
                ELSE rows_before(k - 1) + Size(rate_changes(k - 1))
        IN  /\ Size(frame.gid_parrots) = Sum(counts)
            /\ StatusDict.target_gids = frame.gid_parrots
            /\ Size(StatusDict.targets) = rows_before(Sum(counts))
            /\ \A k \in DOMAIN frame.gid_parrots :
                  \A row \in DOMAIN rate_changes(k) :
                     /\ StatusDict.targets[rows_before(k) + row] = k
                     /\ StatusDict.times[rows_before(k) + row]
                           = rate_changes(k)[row][1]
                     /\ StatusDict.rates[rows_before(k) + row]
                           = rate_changes(k)[row][2]
            /\ \A t \in DOMAIN StatusDict.targets :
                  StatusDict.targets[t] \in DOMAIN frame.gid_parrots
            /\ \A k \in DOMAIN frame.gid_parrots :
                  frame.parrot_to_sampler[k]
                     = <<frame.gid_parrots[k], frame.cells[owner(k)],
                         1000 * frame.source_configs[owner(k)]
                                    .weight_per_source[local(k)]>>
====
